---- MODULE Spec2Model ----
(***************************************************************************)
(* trafapy: the rate limiter / retry executor (trafapy/client.py,          *)
(* RateLimiter), the batching engine and the request path of               *)
(* TrafikanalysClient, as state machines.                                  *)
(*                                                                         *)
(* Time is counted in ticks; Unit ticks make the 1.0 time unit of the      *)
(* code (the burst window of wait_if_needed).  The clock is monotone.      *)
(* time.sleep(d) returns after d ticks or later.                           *)
(***************************************************************************)
EXTENDS Integers, Sequences, FiniteSets, TLC

VARIABLES
    clock,             \* time.time(), in ticks
    calls_per_second,  \* RateLimiter.calls_per_second, a fraction <<num, den>>
    burst_size,        \* RateLimiter.burst_size
    backoff_factor,    \* RateLimiter.backoff_factor
    max_retries,       \* RateLimiter.max_retries
    min_interval,      \* RateLimiter.min_interval, in ticks
    call_times,        \* RateLimiter.call_times
    admitted,          \* history: every timestamp wait_if_needed has recorded
    last_slept,        \* history: which checks of the last wait_if_needed slept
    pc,                \* execute_with_retry: "idle", "running", "returned", "raised"
    attempt,           \* execute_with_retry: the loop variable
    outcomes,          \* history: what each invocation of func did
    sleeps,            \* history: the backoff wait_time of each retry, in time units
    exec_result,       \* what execute_with_retry returned or raised
    max_batch_size,    \* TrafikanalysClient.max_batch_size
    variables,         \* the caller's variable-value mapping, in insertion order
    batches,           \* what _create_batches returned
    needs_batching,    \* what _needs_batching returned: "none" before the call
    built_query,       \* what _build_query returned, <<>> before the call
    rate_limit_enabled,    \* TrafikanalysClient.rate_limit_enabled
    rate_limiter,          \* TrafikanalysClient.rate_limiter: "none" or "limiter"
    config_log,            \* history: the constructions and configure_rate_limiting calls
    request_log,           \* history: the _make_request calls and what they came to
    raw_log,               \* history: the responses and outcomes of _make_request_raw in a request
    shared_file,           \* a cache file several instances use: whether it is there, its blocks
    writers,               \* per instance saving into it: how far save_to_cache is, on which file
    reader,                \* the instance reading it: how far get_from_cache is
    read_log,              \* history: what each get_from_cache on the shared file came to
    removals,              \* history: number of times another instance removed the file
    values_log,            \* history: the get_all_available_values calls and their results
    first_log,             \* history: batch_log of the query before, when the query is a repeat
    cache_enabled,         \* APICache.enabled
    cache_expiry_seconds,  \* APICache.expiry_seconds, in ticks
    cache_files,           \* the cache directory: one [key, content, data, mtime] per file
    cache_dir_exists,      \* os.path.exists(cache_dir)
    storage,               \* what the storage refuses: "ok", "no_mkdir", "no_open", "no_write"
    cache_log,             \* history: the last two calls made on the cache itself
    cache_stored,          \* history: per key, the data and time of the last save that succeeded
    key_log,               \* history: the generate_cache_key calls and their keys
    use_batching,      \* get_data_as_dataframe: the argument
    q_pc,              \* get_data_as_dataframe: "idle", "loop", "single", "returned", "raised"
    bi,                \* get_data_as_dataframe: i of the batch loop
    all_dataframes,    \* get_data_as_dataframe: the tables of the batches so far
    result_df,         \* what get_data_as_dataframe returned
    batch_log,         \* history: what each _get_data call of the query came to
    net_calls,         \* history: number of session.get calls
    faults             \* history: number of responses that were failures

limiterVars == <<calls_per_second, burst_size, backoff_factor, max_retries,
                 min_interval, call_times>>
execVars == <<pc, attempt, outcomes, sleeps, exec_result>>
batchVars == <<max_batch_size, variables, batches, needs_batching, built_query>>
cacheConf == <<cache_enabled, cache_expiry_seconds, storage>>
cacheHist == <<cache_log, key_log>>
cacheVars == <<cacheConf, cache_files, cache_dir_exists, cache_stored, cacheHist>>
sharedVars == <<shared_file, writers, reader, read_log, removals>>
auxVars == <<values_log, first_log>>
clientVars == <<rate_limiter, config_log, request_log, raw_log, sharedVars, auxVars>>
queryVars == <<rate_limit_enabled, clientVars, use_batching, q_pc, bi, all_dataframes, result_df,
               batch_log, net_calls, faults>>
vars == <<clock, limiterVars, admitted, last_slept, execVars, batchVars, cacheVars,
          queryVars>>

----------------------------------------------------------------------------
(* Bounds of the model *)

\* ticks per time unit: the 1.0 of the burst window
Unit == 4
\* the clock's horizon under SpecLimiter
MaxTime == 14
\* wait_if_needed calls under SpecLimiter
MaxCalls == 5
\* ticks a sleep may last beyond what was asked
MaxOversleep == 1
\* burst_size ranges over 1..MaxBurst
MaxBurst == 3
\* max_retries ranges over -1..MaxRetries
MaxRetries == 2
\* backoff_factor ranges over 1..MaxBackoff
MaxBackoff == 2

\* value lists have 0..MaxListLen elements
MaxListLen == 5
\* max_batch_size ranges over 1..MaxBatchSize
MaxBatchSize == 3

\* the queried list has 1..MaxQueryLen values
MaxQueryLen == 3
\* failures the server answers one query with
MaxFaults == 2

\* the clock's horizon under SpecCache
MaxCacheTime == 3
\* generate_cache_key calls under SpecKey
MaxKeyCalls == 2
\* a variable has 0..MaxOptions options
MaxOptions == 3

\* calls_per_second as fractions: 1/2, 1, 2, 4 calls per time unit
Rates == {<<1, 2>>, <<1, 1>>, <<2, 1>>, <<4, 1>>}

RECURSIVE Pow(_, _)
Pow(b, e) == IF e = 0 THEN 1 ELSE b * Pow(b, e - 1)

Last(s) == s[Len(s)]

----------------------------------------------------------------------------
(* Values that cross the request path *)

\* A decoded response body: None, or a dict with its keys and, under
\* 'Rows', a list of raw rows (rows_ok is false for a 'Rows' that cannot be
\* processed row by row).  A raw row is the list of its (Column, Value) cells.
NonePayload == [is_none |-> TRUE, keys |-> {}, Rows |-> <<>>, rows_ok |-> TRUE]
EmptyDict == [is_none |-> FALSE, keys |-> {}, Rows |-> <<>>, rows_ok |-> TRUE]
RowsPayload(rows) == [is_none |-> FALSE, keys |-> {"Rows"}, Rows |-> rows, rows_ok |-> TRUE]
BadRowsPayload == [is_none |-> FALSE, keys |-> {"Rows"}, Rows |-> <<>>, rows_ok |-> FALSE]
OtherPayload == [is_none |-> FALSE, keys |-> {"StructureItems"}, Rows |-> <<>>, rows_ok |-> TRUE]

\* What one invocation of func does: it returns a value, raises a
\* requests.exceptions.RequestException (with or without a response) or
\* raises another exception.
Return(v) == [kind |-> "return", has_response |-> FALSE, status_code |-> 0, value |-> v]
HttpError(code) ==
    [kind |-> "RequestException", has_response |-> TRUE, status_code |-> code,
     value |-> NonePayload]
ConnectionError ==
    [kind |-> "RequestException", has_response |-> FALSE, status_code |-> 0,
     value |-> NonePayload]
OtherError ==
    [kind |-> "Exception", has_response |-> FALSE, status_code |-> 0,
     value |-> NonePayload]
NoneResult == Return(NonePayload)

\* no construction, configuration or request of a client is on record
Writers == {1, 2}

\* no cache file is shared with another instance
NoSharedUse ==
    /\ shared_file = [exists |-> FALSE, cells |-> <<>>]
    /\ writers = [w \in Writers |-> [pc |-> 0, linked |-> FALSE]]
    /\ reader = "idle"
    /\ read_log = <<>>
    /\ removals = 0

\* no value listing has been asked for and no query repeated
NoOtherCalls ==
    /\ values_log = <<>>
    /\ first_log = <<>>

NoClientCalls ==
    /\ config_log = <<>>
    /\ request_log = <<>>
    /\ raw_log = <<>>
    /\ NoSharedUse
    /\ NoOtherCalls

\* a client with rate limiting on and the cache off that has dispatched nothing
NoDispatch ==
    /\ rate_limit_enabled = TRUE
    /\ rate_limiter = "limiter"
    /\ NoClientCalls
    /\ cache_enabled = FALSE
    /\ cache_expiry_seconds = 0
    /\ cache_files = {}
    /\ cache_dir_exists = FALSE
    /\ storage = "ok"
    /\ cache_log = <<>>
    /\ cache_stored = {}
    /\ key_log = <<>>
    /\ use_batching = TRUE
    /\ q_pc = "idle"
    /\ bi = 0
    /\ all_dataframes = <<>>
    /\ result_df = <<>>
    /\ batch_log = <<>>
    /\ net_calls = 0
    /\ faults = 0

\* no query has been made: the batching state of a client left at its defaults
NoQuery ==
    /\ max_batch_size = 1
    /\ variables = <<>>
    /\ batches = <<>>
    /\ needs_batching = "none"
    /\ built_query = <<>>
    /\ NoDispatch


----------------------------------------------------------------------------
(* RateLimiter.__init__ *)

\* self.min_interval = 1.0 / calls_per_second
MinIntervalOf(r) == (Unit * r[2]) \div r[1]

RateLimiterInit(r, b, f, n) ==
    /\ calls_per_second = r
    /\ burst_size = b
    /\ backoff_factor = f
    /\ max_retries = n
    /\ call_times = <<>>
    /\ min_interval = MinIntervalOf(r)

----------------------------------------------------------------------------
(* RateLimiter.wait_if_needed *)

\* PruneOld keeping every timestamp
PruneOldNothing(ct, now) == ct

\* self.call_times = [t for t in self.call_times if current_time - t < 1.0]
PruneOld(ct, now) == SelectSeq(ct, LAMBDA t : now - t < Unit)

\* BurstSleep with the burst test written > instead of >=
BurstSleepOffByOne(ct, now) ==
    IF Len(ct) > burst_size
    THEN LET sleep_time == Unit - (now - ct[1])
         IN  IF sleep_time > 0 THEN sleep_time ELSE 0
    ELSE 0

\* the burst check: the sleep_time asked for, 0 when it does not sleep
BurstSleep(ct, now) ==
    IF Len(ct) >= burst_size
    THEN LET sleep_time == Unit - (now - ct[1])
         IN  IF sleep_time > 0 THEN sleep_time ELSE 0
    ELSE 0

\* the base rate check: the sleep_time asked for, 0 when it does not sleep
RateSleep(ct, now) ==
    IF ct # <<>>
    THEN LET time_since_last == now - Last(ct)
         IN  IF time_since_last < min_interval
             THEN min_interval - time_since_last
             ELSE 0
    ELSE 0

\* time.sleep(d) followed by current_time = time.time(); o is the oversleep
AfterSleep(now, d, o) == IF d > 0 THEN now + d + o ELSE now

\* WaitIfNeeded making the base rate check on the history before pruning
WaitIfNeededRateUnpruned(ct, now, o1, o2) ==
    LET pruned == PruneOld(ct, now)
        d1     == BurstSleep(pruned, now)
        now1   == AfterSleep(now, d1, o1)
        d2     == RateSleep(ct, now1)
        now2   == AfterSleep(now1, d2, o2)
    IN  [call_times |-> Append(pruned, now2),
         now        |-> now2,
         slept      |-> [burst |-> d1 > 0, rate |-> d2 > 0]]

\* The whole of wait_if_needed entered at time now with history ct:
\* the history it leaves, the time it returns at and whether it slept.
WaitIfNeeded(ct, now, o1, o2) ==
    LET pruned == PruneOld(ct, now)
        d1     == BurstSleep(pruned, now)
        now1   == AfterSleep(now, d1, o1)
        d2     == RateSleep(pruned, now1)
        now2   == AfterSleep(now1, d2, o2)
    IN  [call_times |-> Append(pruned, now2),
         now        |-> now2,
         slept      |-> [burst |-> d1 > 0, rate |-> d2 > 0]]

NoSleep == [burst |-> FALSE, rate |-> FALSE]

----------------------------------------------------------------------------
(* The limiter alone: wait_if_needed called at any times *)

InitLimiter ==
    /\ clock = 0
    /\ \E r \in Rates, b \in 1..MaxBurst :
           RateLimiterInit(r, b, 2, 0)
    /\ admitted = <<>>
    /\ last_slept = NoSleep
    /\ pc = "idle"
    /\ attempt = 0
    /\ outcomes = <<>>
    /\ sleeps = <<>>
    /\ exec_result = NoneResult
    /\ NoQuery

\* time passes between two calls
Tick ==
    /\ clock < MaxTime
    /\ clock' = clock + 1
    /\ UNCHANGED <<limiterVars, admitted, last_slept, execVars, batchVars, cacheVars, queryVars>>

\* wait_if_needed is called while no execute_with_retry is in progress
Admit ==
    /\ pc = "idle"
    /\ Len(admitted) < MaxCalls
    /\ \E o1, o2 \in 0..MaxOversleep :
         LET w == WaitIfNeeded(call_times, clock, o1, o2)
         IN  /\ w.now <= MaxTime
             /\ call_times' = w.call_times
             /\ clock' = w.now
             /\ admitted' = Append(admitted, w.now)
             /\ last_slept' = w.slept
    /\ UNCHANGED <<calls_per_second, burst_size, backoff_factor, max_retries,
                   min_interval, execVars, batchVars, cacheVars, queryVars>>

NextLimiter == Tick \/ Admit

SpecLimiter == InitLimiter /\ [][NextLimiter]_vars

----------------------------------------------------------------------------
(* RateLimiter.execute_with_retry *)

Outcomes ==
    {Return(OtherPayload), HttpError(429), HttpError(500), HttpError(503), HttpError(404),
     ConnectionError, OtherError}

\* except requests.exceptions.RequestException as e
IsCaught(e) == e.kind = "RequestException"

\* Exhausted giving up one attempt early
ExhaustedEarly(a) == a + 1 >= max_retries

\* Exhausted giving up one attempt late
ExhaustedLate(a) == a = max_retries + 1

\* if attempt == self.max_retries: raise e
Exhausted(a) == a = max_retries

\* hasattr(e, 'response') and e.response is not None and status_code == 429
IsRateLimited(e) == e.has_response /\ e.status_code = 429

\* IsServerError taking every 4xx status for a server error too
IsServerErrorFrom400(e) == e.has_response /\ e.status_code # 429 /\ e.status_code >= 400

\* ... elif e.response.status_code >= 500
IsServerError(e) == e.has_response /\ e.status_code # 429 /\ e.status_code >= 500

\* IsRetried retrying every RequestException, with or without a response
IsRetriedAnyRequestException(e, a) == IsCaught(e) /\ ~Exhausted(a)

\* whether the except clause sleeps and continues the loop
IsRetried(e, a) ==
    IsCaught(e) /\ ~Exhausted(a) /\ (IsRateLimited(e) \/ IsServerError(e))

\* WaitTime doubling the server-error wait instead of the rate-limit wait
WaitTimeSwapped(e, a) ==
    IF IsRateLimited(e) THEN Pow(backoff_factor, a) ELSE Pow(backoff_factor, a) * 2

\* wait_time of the except clause, in time units
WaitTime(e, a) ==
    IF IsRateLimited(e) THEN Pow(backoff_factor, a) * 2 ELSE Pow(backoff_factor, a)

InitRetry ==
    /\ clock = 0
    /\ \E r \in {<<1, 1>>, <<4, 1>>}, b \in {1, MaxBurst},
          f \in 1..MaxBackoff, n \in -1..MaxRetries :
           RateLimiterInit(r, b, f, n)
    /\ admitted = <<>>
    /\ last_slept = NoSleep
    /\ pc = "idle"
    /\ attempt = 0
    /\ outcomes = <<>>
    /\ sleeps = <<>>
    /\ exec_result = NoneResult
    /\ NoQuery

\* execute_with_retry is entered: for attempt in range(self.max_retries + 1);
\* an empty range falls through and returns None
ExecEnter ==
    /\ pc = "idle"
    /\ attempt' = 0
    /\ outcomes' = <<>>
    /\ sleeps' = <<>>
    /\ exec_result' = NoneResult
    /\ pc' = IF max_retries + 1 > 0 THEN "running" ELSE "returned"
    /\ UNCHANGED <<clock, limiterVars, admitted, last_slept>>

\* execute_with_retry is called on a limiter
ExecStart ==
    /\ ExecEnter
    /\ UNCHANGED <<batchVars, cacheVars, queryVars>>

\* AdmitAttempt calling wait_if_needed before the first invocation only
AdmitFirstAttemptOnly(a, o1, o2) ==
    IF a = 0
    THEN LET w == WaitIfNeeded(call_times, clock, o1, o2)
         IN  [call_times |-> w.call_times, now |-> w.now, slept |-> w.slept,
              recorded |-> <<w.now>>]
    ELSE [call_times |-> call_times, now |-> clock, slept |-> NoSleep, recorded |-> <<>>]

\* self.wait_if_needed(debug) at the head of iteration a: the limiter it
\* leaves, the time it returns at and the timestamp it has recorded
AdmitAttempt(a, o1, o2) ==
    LET w == WaitIfNeeded(call_times, clock, o1, o2)
    IN  [call_times |-> w.call_times, now |-> w.now, slept |-> w.slept,
         recorded |-> <<w.now>>]

\* one iteration of the loop: wait_if_needed, func, and the except clause
\* func draws what it does from S; sleeps last 0..over ticks too long
ExecAttemptWith(S, over) ==
    /\ pc = "running"
    /\ attempt < max_retries + 1
    /\ \E e \in S, o1, o2, o3 \in 0..over :
         LET w == AdmitAttempt(attempt, o1, o2)
         IN  /\ call_times' = w.call_times
             /\ admitted' = admitted \o w.recorded
             /\ last_slept' = w.slept
             /\ outcomes' = Append(outcomes, e)
             /\ IF e.kind = "return"
                THEN /\ pc' = "returned"
                     /\ exec_result' = e
                     /\ clock' = w.now
                     /\ UNCHANGED <<attempt, sleeps>>
                ELSE IF IsRetried(e, attempt)
                THEN /\ sleeps' = Append(sleeps, [attempt |-> attempt, error |-> e,
                                                  wait_time |-> WaitTime(e, attempt)])
                     /\ clock' = AfterSleep(w.now, WaitTime(e, attempt) * Unit, o3)
                     /\ attempt' = attempt + 1
                     /\ pc' = IF attempt + 1 < max_retries + 1
                              THEN "running" ELSE "returned"
                     /\ UNCHANGED exec_result
                ELSE /\ pc' = "raised"
                     /\ exec_result' = e
                     /\ clock' = w.now
                     /\ UNCHANGED <<attempt, sleeps>>
    /\ UNCHANGED <<calls_per_second, burst_size, backoff_factor, max_retries,
                   min_interval>>

\* execute_with_retry of any func
ExecAttempt ==
    /\ ExecAttemptWith(Outcomes, MaxOversleep)
    /\ UNCHANGED <<batchVars, cacheVars, queryVars>>

NextRetry == ExecStart \/ ExecAttempt

SpecRetry == InitRetry /\ [][NextRetry]_vars

----------------------------------------------------------------------------
(* Variable-value mappings *)

\* A mapping is the sequence of its items in insertion order, the names
\* distinct.  A value is a list of strings, a string (its characters) or
\* None.
List(items) == [kind |-> "list", items |-> items]
Str(chars) == [kind |-> "str", items |-> chars]
NoneValue == [kind |-> "none", items |-> <<>>]
Item(n, v) == [name |-> n, value |-> v]

Letters == <<"a", "b", "c", "d", "e", "f", "g", "h">>
VarNames == {"ar", "reglan", "drivm"}

Min(a, b) == IF a < b THEN a ELSE b

\* the lists [], [a], [a, b], ...; the strings "", "t" and one longer than
\* any max_batch_size; None
ListValues == {List(SubSeq(Letters, 1, n)) : n \in 0..MaxListLen}
ScalarValues ==
    {Str(<<>>), Str(<<"t">>), Str([i \in 1..(MaxBatchSize + 1) |-> "9"])}
Values == ListValues \cup ScalarValues \cup {NoneValue}

NameOrders ==
    {ns \in UNION {[1..n -> VarNames] : n \in 0..Cardinality(VarNames)} :
        \A i, j \in 1..Len(ns) : i # j => ns[i] # ns[j]}
Mappings ==
    UNION {{[i \in 1..Len(ns) |-> Item(ns[i], vs[i])] : vs \in [1..Len(ns) -> Values]} :
           ns \in NameOrders}

\* variables[name]
GetValue(m, name) == m[CHOOSE i \in 1..Len(m) : m[i].name = name].value

\* batch_vars = variables.copy(); batch_vars[name] = v
CopyWith(m, name, v) ==
    [i \in 1..Len(m) |-> IF m[i].name = name THEN Item(name, v) ELSE m[i]]

----------------------------------------------------------------------------
(* TrafikanalysClient._create_batches *)

\* IsOversized without the isinstance test: anything with a length counts
IsOversizedAnyType(v) == Len(v.items) > max_batch_size

\* isinstance(var_values, list) and len(var_values) > self.max_batch_size
IsOversized(v) == v.kind = "list" /\ Len(v.items) > max_batch_size

\* variables_to_batch: (var_name, len(var_values)) of the oversized variables
VariablesToBatch(m) ==
    LET big == SelectSeq(m, LAMBDA it : IsOversized(it.value))
    IN  [i \in 1..Len(big) |-> [name |-> big[i].name, size |-> Len(big[i].value.items)]]

\* InsertBySize putting x before an equal element: equal sizes are reversed
InsertBySizeBeforeEqual(sorted, x) ==
    LET smaller == {i \in 1..Len(sorted) : sorted[i].size <= x.size}
        at == IF smaller = {} THEN Len(sorted) + 1
              ELSE CHOOSE i \in smaller : \A j \in smaller : i <= j
    IN  SubSeq(sorted, 1, at - 1) \o <<x>> \o SubSeq(sorted, at, Len(sorted))

\* x goes before the first element smaller than it: equal sizes keep their order
InsertBySize(sorted, x) ==
    LET smaller == {i \in 1..Len(sorted) : sorted[i].size < x.size}
        at == IF smaller = {} THEN Len(sorted) + 1
              ELSE CHOOSE i \in smaller : \A j \in smaller : i <= j
    IN  SubSeq(sorted, 1, at - 1) \o <<x>> \o SubSeq(sorted, at, Len(sorted))

\* variables_to_batch.sort(key=lambda x: x[1], reverse=True), a stable sort
RECURSIVE SortBySizeDesc(_)
SortBySizeDesc(s) ==
    IF s = <<>> THEN <<>>
    ELSE InsertBySize(SortBySizeDesc(SubSeq(s, 1, Len(s) - 1)), s[Len(s)])

\* batch_values[i:j], 0 <= i
Slice(seq, i, j) == SubSeq(seq, i + 1, Min(j, Len(seq)))

\* RangeStarts stepping over one element too many
RangeStartsWideStep(n, k) == [b \in 1..((n + k) \div (k + 1)) |-> (b - 1) * (k + 1)]

\* range(0, n, k) for k > 0
RangeStarts(n, k) == [b \in 1..((n + k - 1) \div k) |-> (b - 1) * k]

\* AssignInCopy with batch_vars = variables: the assignment lands in the
\* caller's mapping
AssignWithoutCopy(caller, name, v) ==
    [caller |-> CopyWith(caller, name, v), batch_vars |-> CopyWith(caller, name, v)]

\* batch_vars = variables.copy(); batch_vars[name] = v: the caller's mapping
\* and the batch afterwards
AssignInCopy(caller, name, v) ==
    [caller |-> caller, batch_vars |-> CopyWith(caller, name, v)]

\* the loop over range(0, len(batch_values), max_batch_size) from the given
\* starts on: the caller's mapping it leaves and the batches it appends
RECURSIVE BatchLoop(_, _, _, _)
BatchLoop(caller, name, batch_values, starts) ==
    IF starts = <<>> THEN [caller |-> caller, batches |-> <<>>]
    ELSE LET a == AssignInCopy(caller, name,
                               [kind  |-> batch_values.kind,
                                items |-> Slice(batch_values.items, starts[1],
                                                starts[1] + max_batch_size)])
             rest == BatchLoop(a.caller, name, batch_values, Tail(starts))
         IN  [caller |-> rest.caller, batches |-> <<a.batch_vars>> \o rest.batches]

\* _create_batches(m): the batches it returns and the mapping the caller
\* holds afterwards
CreateBatchesRun(m) ==
    LET variables_to_batch == VariablesToBatch(m)
    IN  IF variables_to_batch = <<>>
        THEN [caller |-> m, batches |-> <<m>>]
        ELSE LET batch_var == SortBySizeDesc(variables_to_batch)[1]
                 batch_values == GetValue(m, batch_var.name)
                 starts == RangeStarts(Len(batch_values.items), max_batch_size)
                 run == BatchLoop(m, batch_var.name, batch_values, starts)
             IN  IF run.batches # <<>> THEN run
                 ELSE [caller |-> run.caller, batches |-> <<run.caller>>]

CreateBatches(m) == CreateBatchesRun(m).batches

----------------------------------------------------------------------------
(* TrafikanalysClient._build_query *)

ProductCode == "t10016"

RECURSIVE Join(_, _)
Join(parts, sep) ==
    IF parts = <<>> THEN ""
    ELSE IF Len(parts) = 1 THEN parts[1]
    ELSE parts[1] \o sep \o Join(Tail(parts), sep)

\* QueryPart without the test for an empty list: [] gives 'name:'
QueryPartEmptyListKept(it) ==
    IF it.value.kind = "list"
    THEN it.name \o ":" \o Join(it.value.items, ",")
    ELSE IF it.value.kind = "str" /\ it.value.items # <<>>
    THEN it.name \o ":" \o Join(it.value.items, "")
    ELSE it.name

\* the query part of one variable
QueryPart(it) ==
    IF it.value.kind = "list" /\ it.value.items # <<>>
    THEN it.name \o ":" \o Join(it.value.items, ",")
    ELSE IF it.value.kind = "str" /\ it.value.items # <<>>
    THEN it.name \o ":" \o Join(it.value.items, "")
    ELSE it.name

BuildQuery(product_code, m) ==
    Join(<<product_code>> \o [i \in 1..Len(m) |-> QueryPart(m[i])], "|")

----------------------------------------------------------------------------
(* TrafikanalysClient._needs_batching *)

\* NeedsBatching with >= for >: a list of max_batch_size elements counts
NeedsBatchingAtLeast(m) ==
    \E i \in 1..Len(m) :
        m[i].value.kind = "list" /\ Len(m[i].value.items) >= max_batch_size

\* True at the first list with more than max_batch_size elements
NeedsBatching(m) == \E i \in 1..Len(m) : IsOversized(m[i].value)

----------------------------------------------------------------------------
(* The batching engine and the query builder, called on their own *)

\* a client that has made no request: the limiter and the retry executor
NoRequest ==
    /\ clock = 0
    /\ RateLimiterInit(<<1, 1>>, 5, 2, 3)
    /\ admitted = <<>>
    /\ last_slept = NoSleep
    /\ pc = "idle"
    /\ attempt = 0
    /\ outcomes = <<>>
    /\ sleeps = <<>>
    /\ exec_result = NoneResult

InitBatch ==
    /\ NoRequest
    /\ NoDispatch
    /\ max_batch_size \in 1..MaxBatchSize
    /\ variables \in Mappings
    /\ batches = <<>>
    /\ needs_batching = "none"
    /\ built_query = <<>>

\* _create_batches(variables) is called
CreateBatchesCall ==
    /\ batches = <<>>
    /\ batches' = CreateBatchesRun(variables).batches
    /\ variables' = CreateBatchesRun(variables).caller
    /\ UNCHANGED <<clock, limiterVars, admitted, last_slept, execVars,
                   max_batch_size, needs_batching, built_query,
                   cacheVars, queryVars>>

\* _needs_batching(variables) is called
NeedsBatchingCall ==
    /\ needs_batching = "none"
    /\ needs_batching' = IF NeedsBatching(variables) THEN "True" ELSE "False"
    /\ UNCHANGED <<clock, limiterVars, admitted, last_slept, execVars,
                   max_batch_size, variables, batches, built_query,
                   cacheVars, queryVars>>

\* _build_query(product_code, variables) is called
BuildQueryCall ==
    /\ built_query = <<>>
    /\ built_query' = <<BuildQuery(ProductCode, variables)>>
    /\ UNCHANGED <<clock, limiterVars, admitted, last_slept, execVars,
                   max_batch_size, variables, batches, needs_batching,
                   cacheVars, queryVars>>

NextBatch ==
    \/ CreateBatchesCall
    \/ NeedsBatchingCall
    \/ BuildQueryCall

SpecBatch == InitBatch /\ [][NextBatch]_vars

----------------------------------------------------------------------------
(* APICache *)

\* json.dumps(params, sort_keys=True): the names a mapping of parameters may
\* have, in sorted order
SortedParamNames == <<"lang", "query">>

KeyRank(name) == CHOOSE i \in 1..Len(SortedParamNames) : SortedParamNames[i] = name

\* SortByKey leaving the pairs in insertion order
InsertionOrder(params) == params

\* the pairs of a mapping ordered by name, whatever their insertion order
SortByKey(params) ==
    LET present == SelectSeq(SortedParamNames,
                             LAMBDA n : \E i \in 1..Len(params) : params[i][1] = n)
    IN  [r \in 1..Len(present) |->
            params[CHOOSE i \in 1..Len(params) : params[i][1] = present[r]]]

\* the JSON text of a mapping from strings to strings
JsonDumps(params) ==
    LET sorted == SortByKey(params)
    IN  "{" \o Join([i \in 1..Len(sorted) |->
                            "\"" \o sorted[i][1] \o "\": \"" \o sorted[i][2] \o "\""],
                        ", ") \o "}"

\* hashlib.md5(...).hexdigest(): the digest stands for the text it was made
\* of, no two texts of the model sharing a digest
Md5(text) == "md5(" \o text \o ")"

\* generate_cache_key
GenerateCacheKey(url, params) == Md5(url \o "?" \o JsonDumps(params))

\* the key of _get_data's params {"query": query, "lang": lang}
CacheKey(url, query, lang) ==
    GenerateCacheKey(url, <<<<"query", query>>, <<"lang", lang>>>>)

\* A file of the cache directory: its key, what json.load makes of it
\* ("json": the data; "text": not JSON; "bytes": not UTF-8; "locked": the
\* file cannot be opened) and its mtime.
JsonFile(key, data, now) == [key |-> key, content |-> "json", data |-> data, mtime |-> now]
DamagedFile(key, content, now) ==
    [key |-> key, content |-> content, data |-> NonePayload, mtime |-> now]

CacheFile(key) == CHOOSE f \in cache_files : f.key = key

\* IsCacheValid with <= for <
IsCacheValidInclusive(key, now) ==
    /\ cache_enabled
    /\ \E f \in cache_files : f.key = key
    /\ now - CacheFile(key).mtime <= cache_expiry_seconds

\* is_cache_valid at time now
IsCacheValid(key, now) ==
    /\ cache_enabled
    /\ \E f \in cache_files : f.key = key
    /\ now - CacheFile(key).mtime < cache_expiry_seconds

\* open(cache_path, 'r', encoding='utf-8') and json.load under
\* except (json.JSONDecodeError, FileNotFoundError, IOError): a file that
\* cannot be opened or is not JSON gives None; bytes that are not UTF-8
\* raise UnicodeDecodeError, which is none of the three
ReadFile(f) ==
    IF f.content = "json" THEN Return(f.data)
    ELSE IF f.content \in {"text", "locked"} THEN Return(NonePayload)
    ELSE OtherError

\* GetFromCache finding no entry valid
GetFromCacheNothing(key, now) == Return(NonePayload)

\* get_from_cache: what it returns or raises
GetFromCache(key, now) ==
    IF ~IsCacheValid(key, now) THEN Return(NonePayload) ELSE ReadFile(CacheFile(key))

\* the storage calls get_from_cache makes
GetTouches(key, now) ==
    IF ~cache_enabled THEN {}
    ELSE {"exists"}
            \cup (IF \E f \in cache_files : f.key = key THEN {"getmtime"} ELSE {})
            \cup (IF IsCacheValid(key, now) THEN {"open_r"} ELSE {})

\* WithFile leaving a file that is there as it is
WithFileKeepOld(f) ==
    IF \E g \in cache_files : g.key = f.key THEN cache_files ELSE cache_files \cup {f}

\* the directory after the file of f's key has been written
WithFile(f) == {g \in cache_files : g.key # f.key} \cup {f}

\* open(cache_path, 'w') raises
CannotOpenForWrite(key) ==
    \/ storage = "no_open"
    \/ \E f \in cache_files : f.key = key /\ f.content = "locked"

SaveOutcome(result, files, dir, touches) ==
    [result |-> result, files |-> files, dir_exists |-> dir, touches |-> touches]

\* SaveToCache without the test of self.enabled
SaveToCacheAlways(key, data, now) ==
    IF ~cache_dir_exists /\ storage = "no_mkdir"
    THEN SaveOutcome("raised", cache_files, cache_dir_exists, {"exists", "makedirs"})
    ELSE LET touches == {"exists", "open_w"}
                          \cup (IF cache_dir_exists THEN {} ELSE {"makedirs"})
         IN  IF CannotOpenForWrite(key)
             THEN SaveOutcome("False", cache_files, TRUE, touches)
             ELSE IF storage = "no_write"
             THEN SaveOutcome("False", WithFile(DamagedFile(key, "text", now)), TRUE, touches)
             ELSE SaveOutcome("True", WithFile(JsonFile(key, data, now)), TRUE, touches)

\* save_to_cache: its result ("True", "False", or "raised"), the directory
\* it leaves and the storage calls it makes.  os.makedirs is called outside
\* the try; open(cache_path, 'w') truncates the file before json.dump writes.
SaveToCache(key, data, now) ==
    IF ~cache_enabled
    THEN SaveOutcome("False", cache_files, cache_dir_exists, {})
    ELSE IF ~cache_dir_exists /\ storage = "no_mkdir"
    THEN SaveOutcome("raised", cache_files, cache_dir_exists, {"exists", "makedirs"})
    ELSE LET touches == {"exists", "open_w"}
                          \cup (IF cache_dir_exists THEN {} ELSE {"makedirs"})
         IN  IF CannotOpenForWrite(key)
             THEN SaveOutcome("False", cache_files, TRUE, touches)
             ELSE IF storage = "no_write"
             THEN SaveOutcome("False", WithFile(DamagedFile(key, "text", now)), TRUE, touches)
             ELSE SaveOutcome("True", WithFile(JsonFile(key, data, now)), TRUE, touches)

\* cache_stored after a save of data under key at time now has succeeded
Stored(key, data, now) ==
    {e \in cache_stored : e.key # key} \cup {[key |-> key, data |-> data, at |-> now]}

\* Truthy as the test `is not None`
TruthyNotNone(data) == ~data.is_none

\* the truth value of a decoded body: None and {} are false
Truthy(data) == ~data.is_none /\ data.keys # {}

----------------------------------------------------------------------------
(* cached_api_request and the cache called on its own *)

\* the urls of _get_data and _get_structure
Urls == {"https://api.trafa.se/api/data", "https://api.trafa.se/api/structure"}

\* the parameter mappings keys are generated for: the names lang and query
\* in either insertion order, or one of them, or none
ParamMappings ==
    {<<>>}
        \cup {<<<<"lang", l>>>> : l \in {"sv", "en"}}
        \cup {<<<<"query", q>>>> : q \in {"t10016", "t10016|ar"}}
        \cup UNION {{<<<<"lang", l>>, <<"query", q>>>>, <<<<"query", q>>, <<"lang", l>>>>} :
                    l \in {"sv", "en"}, q \in {"t10016", "t10016|ar"}}

\* the keys the cache is called with: the one requests are made for, whose
\* file an earlier client may have left, and another
RequestUrl == "https://api.trafa.se/api/structure"
RequestParams == <<<<"lang", "sv">>>>
RequestKey == GenerateCacheKey(RequestUrl, RequestParams)
OtherKey == GenerateCacheKey("https://api.trafa.se/api/data", RequestParams)
CacheKeys == {RequestKey, OtherKey}

\* what an earlier client left in a file, what is saved now
PayloadOld == OtherPayload
PayloadNew == RowsPayload(<<>>)

\* the cache directory before the first call: missing, empty, or with one
\* file that is whole or damaged
InitialDirectories ==
    {[exists |-> FALSE, files |-> {}], [exists |-> TRUE, files |-> {}]}
        \cup {[exists |-> TRUE, files |-> {JsonFile(RequestKey, PayloadOld, 0)}]}
        \cup {[exists |-> TRUE, files |-> {DamagedFile(RequestKey, c, 0)}] :
              c \in {"text", "bytes", "locked"}}

StorageConditions == {"ok", "no_mkdir", "no_open", "no_write"}

\* what request_func does when cached_api_request calls it
RequestOutcomes == {Return(PayloadNew), Return(EmptyDict), ConnectionError}

CacheCall(op, key, arg, out, result, touches, requested) ==
    [op |-> op, key |-> key, arg |-> arg, at |-> clock, out |-> out, result |-> result,
     touches |-> touches, requested |-> requested]

\* cache_log with one more call
Logged(call) ==
    IF Len(cache_log) < 2 THEN Append(cache_log, call) ELSE Append(Tail(cache_log), call)

InitCache ==
    /\ NoRequest
    /\ max_batch_size = 1
    /\ variables = <<>>
    /\ batches = <<>>
    /\ needs_batching = "none"
    /\ built_query = <<>>
    /\ rate_limit_enabled = TRUE
    /\ rate_limiter = "limiter"
    /\ NoClientCalls
    /\ use_batching = TRUE
    /\ q_pc = "idle"
    /\ bi = 0
    /\ all_dataframes = <<>>
    /\ result_df = <<>>
    /\ batch_log = <<>>
    /\ net_calls = 0
    /\ faults = 0
    /\ cache_enabled \in BOOLEAN
    /\ cache_expiry_seconds \in {0, MaxCacheTime - 1}
    /\ storage \in IF cache_enabled THEN StorageConditions ELSE {"ok"}
    /\ \E d \in InitialDirectories :
         /\ cache_dir_exists = d.exists
         /\ cache_files = d.files
         /\ cache_stored = {[key |-> f.key, data |-> PayloadOld, at |-> f.mtime] : f \in d.files}
    /\ cache_log = <<>>
    /\ key_log = <<>>

\* time passes between two calls
TickCache ==
    /\ clock < MaxCacheTime
    /\ clock' = clock + 1
    /\ UNCHANGED <<limiterVars, admitted, last_slept, execVars, batchVars, cacheVars,
                   queryVars>>

\* get_from_cache(key) is called
GetCall ==
    /\ \E key \in CacheKeys :
         cache_log' = Logged(CacheCall("get", key, NonePayload, GetFromCache(key, clock),
                                       "none", GetTouches(key, clock), FALSE))
    /\ UNCHANGED <<clock, limiterVars, admitted, last_slept, execVars, batchVars,
                   cacheConf, cache_files, cache_dir_exists, cache_stored, key_log,
                   queryVars>>

\* save_to_cache(key, data) is called
SaveCall ==
    /\ \E key \in CacheKeys :
         LET data == PayloadNew
             saved == SaveToCache(key, data, clock)
         IN  /\ cache_files' = saved.files
             /\ cache_dir_exists' = saved.dir_exists
             /\ cache_stored' = IF saved.result = "True" THEN Stored(key, data, clock)
                                ELSE cache_stored
             /\ cache_log' = Logged(CacheCall("save", key, data, NoneResult, saved.result,
                                              saved.touches, FALSE))
    /\ UNCHANGED <<clock, limiterVars, admitted, last_slept, execVars, batchVars,
                   cacheConf, key_log, queryVars>>

\* cached_api_request(cache, request_func, url, params) is called: the
\* lookup, on a miss the request, the save of a response that is true
CachedRequestCall ==
    /\ \E e \in RequestOutcomes :
         LET key == GenerateCacheKey(RequestUrl, RequestParams)
             cached == GetFromCache(key, clock)
             hit == cached.kind = "return" /\ ~cached.value.is_none
             requested == cached.kind = "return" /\ ~hit
             saving == requested /\ e.kind = "return" /\ Truthy(e.value)
             saved == SaveToCache(key, e.value, clock)
             out == IF ~requested THEN cached
                    ELSE IF saving /\ saved.result = "raised" THEN OtherError
                    ELSE e
         IN  /\ cache_files' = IF saving THEN saved.files ELSE cache_files
             /\ cache_dir_exists' = IF saving THEN saved.dir_exists ELSE cache_dir_exists
             /\ cache_stored' = IF saving /\ saved.result = "True"
                                THEN Stored(key, e.value, clock)
                                ELSE cache_stored
             /\ cache_log' = Logged(CacheCall("request", key,
                                              IF e.kind = "return" THEN e.value ELSE NonePayload,
                                              out,
                                              IF saving THEN saved.result ELSE "none",
                                              GetTouches(key, clock)
                                                  \cup (IF saving THEN saved.touches ELSE {}),
                                              requested))
    /\ UNCHANGED <<clock, limiterVars, admitted, last_slept, execVars, batchVars,
                   cacheConf, key_log, queryVars>>

NextCache ==
    \/ TickCache
    \/ GetCall
    \/ SaveCall
    \/ CachedRequestCall

SpecCache == InitCache /\ [][NextCache]_vars

\* a client whose cache has not been called
InitKey ==
    /\ NoRequest
    /\ NoQuery

\* generate_cache_key(url, params) is called
GenerateKeyCall ==
    /\ Len(key_log) < MaxKeyCalls
    /\ \E url \in Urls, params \in ParamMappings :
         key_log' = Append(key_log, [url |-> url, params |-> params,
                                     key |-> GenerateCacheKey(url, params)])
    /\ UNCHANGED <<clock, limiterVars, admitted, last_slept, execVars, batchVars,
                   cacheConf, cache_files, cache_dir_exists, cache_stored, cache_log,
                   queryVars>>

NextKey == GenerateKeyCall

SpecKey == InitKey /\ [][NextKey]_vars

----------------------------------------------------------------------------
(* TrafikanalysClient._make_request_raw *)

\* What session.get comes to: no connection, or a response with a status
\* and a body that decodes, or does not decode, as JSON.
OkResponse(body) ==
    [connected |-> TRUE, status_code |-> 200, json_ok |-> TRUE, body |-> body]
InvalidJson ==
    [connected |-> TRUE, status_code |-> 200, json_ok |-> FALSE, body |-> NonePayload]
StatusResponse(code) ==
    [connected |-> TRUE, status_code |-> code, json_ok |-> TRUE, body |-> EmptyDict]
NoConnection ==
    [connected |-> FALSE, status_code |-> 0, json_ok |-> FALSE, body |-> NonePayload]

\* a response that is not a decodable 200
IsFault(resp) == ~resp.connected \/ resp.status_code # 200 \/ ~resp.json_ok

\* Limited taking every client for one that limits its rate
LimitedAlways == TRUE

\* _make_request: if self.rate_limit_enabled and self.rate_limiter
Limited == rate_limit_enabled /\ rate_limiter = "limiter"

\* What _make_request_raw does with a response.  response.json() raises a
\* ValueError or, with newer versions of requests, a RequestException that
\* carries no response.
MakeRequestRaw(resp) ==
    IF ~resp.connected THEN {ConnectionError}
    ELSE IF resp.status_code # 200
    THEN IF resp.status_code = 429 THEN {HttpError(429)}
         ELSE IF resp.status_code >= 500 THEN {HttpError(resp.status_code)}
         ELSE {Return(EmptyDict)}
    ELSE IF resp.json_ok THEN {Return(resp.body)}
    ELSE {OtherError, ConnectionError}

----------------------------------------------------------------------------
(* APICache on a directory shared by several instances *)

\* A file is the sequence of the blocks written into it.  json.dump hands
\* the text to the file in blocks; a block <<w, k>> is block k of the payload
\* of writer w, <<0, 0>> a hole left by a write behind the end of the file.
\* The payloads of the writers differ and have the same layout.
Blocks == 2
MaxReads == 2
MaxRemovals == 1

Hole == <<0, 0>>
PayloadOf(w) == [k \in 1..Blocks |-> <<w, k>>]

ReadResult(kind, data, error, missing_at) ==
    [kind |-> kind, data |-> data, error |-> error, missing_at |-> missing_at]
Absent(missing_at) == ReadResult("absent", <<>>, "none", missing_at)

\* json.load(f) on the text of the file: a text that stops early or has a
\* hole is not JSON (JSONDecodeError, caught); whole blocks in place, of
\* whichever writers, are a document
Decode(cells) ==
    IF Len(cells) = Blocks /\ \A k \in 1..Blocks : cells[k] # Hole /\ cells[k][2] = k
    THEN ReadResult("data", cells, "none", "none")
    ELSE Absent("none")

\* the blocks of a file after block k was written at its offset
WriteAt(cells, k, block) ==
    [i \in 1..(IF Len(cells) > k THEN Len(cells) ELSE k) |->
        IF i = k THEN block ELSE IF i <= Len(cells) THEN cells[i] ELSE Hole]

InitShared ==
    /\ NoRequest
    /\ max_batch_size = 1
    /\ variables = <<>>
    /\ batches = <<>>
    /\ needs_batching = "none"
    /\ built_query = <<>>
    /\ rate_limit_enabled = TRUE
    /\ rate_limiter = "limiter"
    /\ config_log = <<>>
    /\ request_log = <<>>
    /\ raw_log = <<>>
    /\ use_batching = TRUE
    /\ q_pc = "idle"
    /\ bi = 0
    /\ all_dataframes = <<>>
    /\ result_df = <<>>
    /\ batch_log = <<>>
    /\ net_calls = 0
    /\ faults = 0
    /\ cache_enabled = TRUE
    /\ cache_expiry_seconds = 1800 * Unit
    /\ cache_files = {}
    /\ cache_dir_exists = TRUE
    /\ storage = "ok"
    /\ cache_log = <<>>
    /\ cache_stored = {}
    /\ key_log = <<>>
    /\ shared_file \in {[exists |-> FALSE, cells |-> <<>>],
                        [exists |-> TRUE, cells |-> PayloadOf(1)]}
    /\ writers = [w \in Writers |-> [pc |-> 0, linked |-> FALSE]]
    /\ reader = "idle"
    /\ read_log = <<>>
    /\ removals = 0
    /\ NoOtherCalls

othersShared == <<clock, limiterVars, admitted, last_slept, execVars, batchVars, cacheVars,
                  rate_limit_enabled, rate_limiter, config_log, request_log, raw_log,
                  use_batching, q_pc, bi, all_dataframes, result_df, batch_log,
                  net_calls, faults, auxVars>>

\* save_to_cache of writer w: open(cache_path, 'w') creates the file or
\* empties the one that is there
SaveOpen(w) ==
    /\ writers[w].pc = 0
    /\ shared_file' = [exists |-> TRUE, cells |-> <<>>]
    /\ writers' = [writers EXCEPT ![w] = [pc |-> 1, linked |-> TRUE]]
    /\ UNCHANGED <<reader, read_log, removals, othersShared>>

\* save_to_cache of writer w: the next block goes to the file w has open,
\* at w's own offset; with the last block the file is closed
SaveWrite(w) ==
    /\ writers[w].pc \in 1..Blocks
    /\ shared_file' = IF writers[w].linked
                      THEN [shared_file EXCEPT
                               !.cells = WriteAt(@, writers[w].pc, <<w, writers[w].pc>>)]
                      ELSE shared_file
    /\ writers' = [writers EXCEPT ![w].pc = @ + 1]
    /\ UNCHANGED <<reader, read_log, removals, othersShared>>

\* get_from_cache, is_cache_valid: os.path.exists(cache_path)
GetExists ==
    /\ reader = "idle"
    /\ Len(read_log) < MaxReads
    /\ IF shared_file.exists
       THEN /\ reader' = "exists"
            /\ UNCHANGED read_log
       ELSE /\ read_log' = Append(read_log, Absent("exists"))
            /\ UNCHANGED reader
    /\ UNCHANGED <<shared_file, writers, removals, othersShared>>

\* is_cache_valid: os.path.getmtime(cache_path), outside any try; a file
\* that is there was written within the expiry period
GetMtime ==
    /\ reader = "exists"
    /\ IF shared_file.exists
       THEN /\ reader' = "valid"
            /\ UNCHANGED read_log
       ELSE /\ read_log' = Append(read_log, ReadResult("raised", <<>>, "FileNotFoundError",
                                                       "getmtime"))
            /\ reader' = "idle"
    /\ UNCHANGED <<shared_file, writers, removals, othersShared>>

\* get_from_cache: open(cache_path, 'r') and json.load, inside the try
GetRead ==
    /\ reader = "valid"
    /\ read_log' = Append(read_log, IF shared_file.exists THEN Decode(shared_file.cells)
                                    ELSE Absent("open"))
    /\ reader' = "idle"
    /\ UNCHANGED <<shared_file, writers, removals, othersShared>>

\* clear_cache of another instance: os.remove(file_path); the writers that
\* have the file open keep writing to a file no name leads to
Remove ==
    /\ removals < MaxRemovals
    /\ shared_file.exists
    /\ shared_file' = [exists |-> FALSE, cells |-> <<>>]
    /\ writers' = [w \in Writers |-> [writers[w] EXCEPT !.linked = FALSE]]
    /\ removals' = removals + 1
    /\ UNCHANGED <<reader, read_log, othersShared>>

NextShared ==
    \/ \E w \in Writers : SaveOpen(w)
    \/ \E w \in Writers : SaveWrite(w)
    \/ GetExists
    \/ GetMtime
    \/ GetRead
    \/ Remove

SpecShared == InitShared /\ [][NextShared]_vars

----------------------------------------------------------------------------
(* TrafikanalysClient.__init__, configure_rate_limiting and _make_request *)

MaxConfigCalls == 1
MaxClientCalls == 3

\* the rates a client is built or configured with, 0 among them
ClientRates == {<<0, 1>>, <<2, 1>>}

\* a response with a status and a body that decodes
BodyResponse(code, body) ==
    [connected |-> TRUE, status_code |-> code, json_ok |-> TRUE, body |-> body]

\* what the server answers a request of the client with
ClientResponses ==
    {OkResponse(RowsPayload(<<>>)), InvalidJson, NoConnection,
     BodyResponse(201, RowsPayload(<<>>)), StatusResponse(301), StatusResponse(404),
     StatusResponse(429), StatusResponse(500), StatusResponse(503)}

ClientResponsesNow == {r \in ClientResponses : IsFault(r) => faults < MaxFaults}

Limiter(raised, r, b, n, interval) ==
    [raised |-> raised, calls_per_second |-> r, burst_size |-> b, backoff_factor |-> 2,
     max_retries |-> n, min_interval |-> interval]

\* NewRateLimiter building a limiter of rate 0 with the longest interval
NewRateLimiterZeroAllowed(r, b, n) ==
    Limiter(FALSE, r, b, n, IF r[1] = 0 THEN Unit * MaxTime ELSE MinIntervalOf(r))

\* RateLimiter(calls_per_second=r, burst_size=b, max_retries=n):
\* 1.0 / calls_per_second raises ZeroDivisionError for 0
NewRateLimiter(r, b, n) ==
    IF r[1] = 0 THEN Limiter(TRUE, r, b, n, 0)
    ELSE Limiter(FALSE, r, b, n, MinIntervalOf(r))

\* the limiter fields of a client that holds no limiter
NoLimiter == Limiter(FALSE, <<1, 1>>, 1, 0, Unit)

\* max_retries=3 if enable_retry else 0
RetriesOf(enable_retry) == IF enable_retry THEN 3 ELSE 0

ConfigCall(op, enabled, r, raised) ==
    [op |-> op, enabled |-> enabled, calls_per_second |-> r, raised |-> raised]

\* the constructor returned a client
ClientExists == ~config_log[1].raised

\* TrafikanalysClient(rate_limit_enabled=enabled, calls_per_second=r,
\* burst_size=2, enable_retry=enable_retry)
InitClient ==
    /\ clock = 0
    /\ \E enabled, enable_retry \in BOOLEAN, r \in ClientRates :
         LET new == NewRateLimiter(r, 2, RetriesOf(enable_retry))
             lim == IF enabled /\ ~new.raised THEN new ELSE NoLimiter
         IN  /\ rate_limit_enabled = enabled
             /\ rate_limiter = (IF enabled /\ ~new.raised THEN "limiter" ELSE "none")
             /\ calls_per_second = lim.calls_per_second
             /\ burst_size = lim.burst_size
             /\ backoff_factor = lim.backoff_factor
             /\ max_retries = lim.max_retries
             /\ min_interval = lim.min_interval
             /\ call_times = <<>>
             /\ config_log = <<ConfigCall("init", enabled, r, enabled /\ new.raised)>>
    /\ request_log = <<>>
    /\ raw_log = <<>>
    /\ NoSharedUse
    /\ NoOtherCalls
    /\ admitted = <<>>
    /\ last_slept = NoSleep
    /\ pc = "idle"
    /\ attempt = 0
    /\ outcomes = <<>>
    /\ sleeps = <<>>
    /\ exec_result = NoneResult
    /\ max_batch_size = 1
    /\ variables = <<>>
    /\ batches = <<>>
    /\ needs_batching = "none"
    /\ built_query = <<>>
    /\ cache_enabled = FALSE
    /\ cache_expiry_seconds = 0
    /\ cache_files = {}
    /\ cache_dir_exists = FALSE
    /\ storage = "ok"
    /\ cache_log = <<>>
    /\ cache_stored = {}
    /\ key_log = <<>>
    /\ use_batching = TRUE
    /\ q_pc = "idle"
    /\ bi = 0
    /\ all_dataframes = <<>>
    /\ result_df = <<>>
    /\ batch_log = <<>>
    /\ net_calls = 0
    /\ faults = 0

\* configure_rate_limiting(enabled, calls_per_second=r, burst_size=2,
\* enable_retry): rate_limit_enabled is assigned before the limiter is built
ConfigureRateLimiting ==
    /\ ClientExists
    /\ pc = "idle"
    /\ Len(config_log) < 1 + MaxConfigCalls
    /\ \E enabled, enable_retry \in BOOLEAN, r \in ClientRates :
         LET new == NewRateLimiter(r, 2, RetriesOf(enable_retry))
             lim == IF enabled THEN new ELSE NoLimiter
         IN  /\ rate_limit_enabled' = enabled
             /\ config_log' = Append(config_log,
                                     ConfigCall("configure", enabled, r, enabled /\ new.raised))
             /\ IF enabled /\ new.raised
                THEN UNCHANGED <<rate_limiter, limiterVars>>
                ELSE /\ rate_limiter' = (IF enabled THEN "limiter" ELSE "none")
                     /\ calls_per_second' = lim.calls_per_second
                     /\ burst_size' = lim.burst_size
                     /\ backoff_factor' = lim.backoff_factor
                     /\ max_retries' = lim.max_retries
                     /\ min_interval' = lim.min_interval
                     /\ call_times' = <<>>
    /\ UNCHANGED <<sharedVars, auxVars, clock, admitted, last_slept, execVars, batchVars, cacheVars,
                   request_log, raw_log, use_batching, q_pc, bi, all_dataframes,
                   result_df, batch_log, net_calls, faults>>

RequestCall(limited, raws, out) == [limited |-> limited, raws |-> raws, out |-> out]
RawCall(resp, out) == [resp |-> resp, out |-> out]

\* _make_request without a limiter in use: return self._make_request_raw(url, params)
MakeRequestDirect ==
    /\ ClientExists
    /\ pc = "idle"
    /\ ~Limited
    /\ net_calls < MaxClientCalls
    /\ \E resp \in ClientResponsesNow :
         /\ \E e \in MakeRequestRaw(resp) :
              /\ raw_log' = <<RawCall(resp, e)>>
              /\ request_log' = <<RequestCall(FALSE, <<RawCall(resp, e)>>, e)>>
         /\ faults' = IF IsFault(resp) THEN faults + 1 ELSE faults
    /\ net_calls' = net_calls + 1
    /\ UNCHANGED <<sharedVars, auxVars, clock, limiterVars, admitted, last_slept, execVars, batchVars,
                   cacheVars, rate_limit_enabled, rate_limiter, config_log,
                   use_batching, q_pc, bi, all_dataframes, result_df, batch_log>>

\* _make_request with the limiter: execute_with_retry is entered
MakeRequestStart ==
    /\ ClientExists
    /\ Limited
    /\ net_calls < MaxClientCalls
    /\ ExecEnter
    /\ raw_log' = <<>>
    /\ UNCHANGED <<sharedVars, auxVars, batchVars, cacheVars, rate_limit_enabled, rate_limiter, config_log,
                   request_log, use_batching, q_pc, bi, all_dataframes, result_df,
                   batch_log, net_calls, faults>>

\* one iteration of execute_with_retry on _make_request_raw
MakeRequestAttempt ==
    /\ \E resp \in ClientResponsesNow :
         /\ ExecAttemptWith(MakeRequestRaw(resp), 0)
         /\ raw_log' = Append(raw_log, RawCall(resp, Last(outcomes')))
         /\ faults' = IF IsFault(resp) THEN faults + 1 ELSE faults
    /\ net_calls' = net_calls + 1
    /\ UNCHANGED <<sharedVars, auxVars, batchVars, cacheVars, rate_limit_enabled, rate_limiter, config_log,
                   request_log, use_batching, q_pc, bi, all_dataframes, result_df,
                   batch_log>>

\* execute_with_retry has returned or raised, and _make_request with it
MakeRequestEnd ==
    /\ pc \in {"returned", "raised"}
    /\ request_log' = <<RequestCall(TRUE, raw_log, exec_result)>>
    /\ pc' = "idle"
    /\ UNCHANGED <<sharedVars, auxVars, clock, limiterVars, admitted, last_slept, attempt, outcomes, sleeps,
                   exec_result, batchVars, cacheVars, rate_limit_enabled, rate_limiter,
                   config_log, raw_log, use_batching, q_pc, bi, all_dataframes,
                   result_df, batch_log, net_calls, faults>>

NextClient ==
    \/ ConfigureRateLimiting
    \/ MakeRequestDirect
    \/ MakeRequestStart
    \/ MakeRequestAttempt
    \/ MakeRequestEnd

SpecClient == InitClient /\ [][NextClient]_vars

----------------------------------------------------------------------------
(* TrafikanalysClient._process_row, _data_to_dataframe and the merge *)

\* A processed row is the set of its (column, value) pairs, a table the
\* sequence of its rows.
RawA == <<<<"ar", "2020">>, <<"varde", "10">>>>
RawB == <<<<"ar", "2021">>, <<"", "x">>, <<"ar", "2022">>>>
RawEmpty == <<>>

\* _process_row: processed[col_name] = value for the cells with a column
\* name, a later cell of the same column replacing an earlier one
ProcessRow(raw) ==
    {raw[i] : i \in {j \in 1..Len(raw) :
                        /\ raw[j][1] # ""
                        /\ \A l \in (j + 1)..Len(raw) : raw[l][1] # raw[j][1]}}

ColumnsOf(row) == {p[1] : p \in row}
Columns(table) == UNION {ColumnsOf(table[i]) : i \in 1..Len(table)}

\* the columns of a DataFrame are those of all its rows; a row without a
\* column holds NaN there
FillMissing(table) ==
    [i \in 1..Len(table) |->
        table[i] \cup {<<c, "NaN">> : c \in Columns(table) \ ColumnsOf(table[i])}]

\* _data_to_dataframe: the table, or raised when the rows cannot be processed
DataToDataframe(data) ==
    IF ~Truthy(data) \/ "Rows" \notin data.keys \/ (data.rows_ok /\ data.Rows = <<>>)
    THEN [raised |-> FALSE, table |-> <<>>]
    ELSE IF ~data.rows_ok
    THEN [raised |-> TRUE, table |-> <<>>]
    ELSE LET processed_rows == [i \in 1..Len(data.Rows) |-> ProcessRow(data.Rows[i])]
         IN  [raised |-> FALSE,
              table  |-> FillMissing(SelectSeq(processed_rows, LAMBDA r : r # {}))]

\* pd.concat(all_dataframes, ignore_index=True)
RECURSIVE ConcatTables(_)
ConcatTables(dfs) ==
    IF dfs = <<>> THEN <<>> ELSE FillMissing(dfs[1] \o ConcatTables(Tail(dfs)))

\* DropDuplicates keeping the last of equal rows
RECURSIVE DropDuplicatesKeepLast(_)
DropDuplicatesKeepLast(t) ==
    IF t = <<>> THEN <<>>
    ELSE IF \E i \in 2..Len(t) : t[i] = t[1]
         THEN DropDuplicatesKeepLast(Tail(t))
         ELSE <<t[1]>> \o DropDuplicatesKeepLast(Tail(t))

\* DropDuplicates keeping every row
DropDuplicatesNothing(t) == t

\* result_df.drop_duplicates(): the first of equal rows is kept
RECURSIVE DropDuplicates(_)
DropDuplicates(t) ==
    IF t = <<>> THEN <<>>
    ELSE LET front == SubSeq(t, 1, Len(t) - 1)
         IN  IF \E i \in 1..Len(front) : front[i] = t[Len(t)]
             THEN DropDuplicates(front)
             ELSE Append(DropDuplicates(front), t[Len(t)])

\* MergeBatches without the test for an empty all_dataframes: pd.concat
\* raises on an empty list
MergeBatchesUnguarded(dfs) ==
    IF dfs = <<>>
    THEN [raised |-> TRUE, table |-> <<>>]
    ELSE [raised |-> FALSE, table |-> DropDuplicates(ConcatTables(dfs))]

\* what follows the batch loop: an empty DataFrame when no batch gave rows,
\* else the tables concatenated without duplicates
MergeBatches(dfs) ==
    IF dfs = <<>>
    THEN [raised |-> FALSE, table |-> <<>>]
    ELSE [raised |-> FALSE, table |-> DropDuplicates(ConcatTables(dfs))]

----------------------------------------------------------------------------
(* TrafikanalysClient.get_data_as_dataframe *)

Language == "sv"
DataUrl == "https://api.trafa.se/api/data"

\* the bodies the server answers a data query with
ServerPayloads ==
    {RowsPayload(<<>>), RowsPayload(<<RawA>>), RowsPayload(<<RawB, RawA, RawEmpty>>),
     BadRowsPayload}

ServerResponses ==
    {OkResponse(p) : p \in ServerPayloads}
        \cup {InvalidJson, StatusResponse(429), StatusResponse(500),
              StatusResponse(404), NoConnection}

\* the responses the server may give now: at most MaxFaults failures a query
ResponsesNow == {r \in ServerResponses : IsFault(r) => faults < MaxFaults}

\* the mappings queried: year lists of 1..MaxQueryLen values, the longest
\* also after an unfiltered variable
QueryMappings ==
    {<<Item("ar", List(SubSeq(Letters, 1, n)))>> : n \in 1..MaxQueryLen}
        \cup {<<Item("reglan", Str(<<>>)), Item("ar", List(SubSeq(Letters, 1, MaxQueryLen)))>>}

\* the query being dispatched: batch bi of the loop, or the whole mapping
Dispatching == (q_pc = "loop" /\ bi < Len(batches)) \/ q_pc = "single"
\* CurrentVariables passing the first batch at every turn of the loop
CurrentVariablesFirstBatch == IF q_pc = "loop" THEN batches[1] ELSE variables

\* for i, batch_vars in enumerate(batches), or the whole mapping
CurrentVariables == IF q_pc = "loop" THEN batches[bi + 1] ELSE variables
CurrentKey == CacheKey(DataUrl, BuildQuery(ProductCode, CurrentVariables), Language)

\* CacheHit of a cached_api_request that does not look into the cache
CacheHitIgnored == FALSE

\* cached_api_request: cached_data is not None
CacheHit ==
    LET cached == GetFromCache(CurrentKey, clock)
    IN  cached.kind = "return" /\ ~cached.value.is_none

\* AfterBatchFailure leaving the loop at the first batch that raises
AfterBatchFailureBreak(i) == Len(batches)

\* except Exception as e: ... continue
AfterBatchFailure(i) == i + 1

\* The rest of _get_data and of the caller's step once the request function
\* has come to e, or the cache has answered (from_cache): the save into the
\* cache, the conversion, and the loop's or the single request's bookkeeping.
EndDispatch(e, from_cache) ==
    LET saving == e.kind = "return" /\ ~from_cache /\ Truthy(e.value)
        saved == SaveToCache(CurrentKey, e.value, clock)
        returned == e.kind = "return" /\ (saving => saved.result # "raised")
        conv == DataToDataframe(e.value)
        ok == returned /\ ~conv.raised
    IN  /\ cache_files' = IF saving THEN saved.files ELSE cache_files
        /\ cache_dir_exists' = IF saving THEN saved.dir_exists ELSE cache_dir_exists
        /\ cache_stored' = IF saving /\ saved.result = "True"
                           THEN Stored(CurrentKey, e.value, clock)
                           ELSE cache_stored
        /\ batch_log' = Append(batch_log,
                               [vars |-> CurrentVariables, ok |-> ok,
                                from_cache |-> from_cache,
                                data |-> IF e.kind = "return" THEN e.value ELSE NonePayload,
                                table |-> IF ok THEN conv.table ELSE <<>>])
        /\ IF q_pc = "loop"
           THEN /\ all_dataframes' = IF ok /\ conv.table # <<>>
                                     THEN Append(all_dataframes, conv.table)
                                     ELSE all_dataframes
                /\ bi' = IF ok THEN bi + 1 ELSE AfterBatchFailure(bi)
                /\ UNCHANGED <<q_pc, result_df>>
           ELSE /\ q_pc' = IF ok THEN "returned" ELSE "raised"
                /\ result_df' = IF ok THEN conv.table ELSE result_df
                /\ UNCHANGED <<bi, all_dataframes>>

\* UsesBatches whatever the caller asked for
UsesBatchesIgnoringFlag(m) == NeedsBatching(m)

\* if use_batching and self._needs_batching(variables):
UsesBatches(m) == use_batching /\ NeedsBatching(m)

\* the plan of a query before it is made
PlanOf(m) == IF UsesBatches(m) THEN CreateBatches(m) ELSE <<m>>

\* The client after construction.  The cache directory outlives the client:
\* it is empty or holds what an earlier client saved for the first request.
Init ==
    /\ clock = 0
    /\ \E enable_retry \in BOOLEAN :
           RateLimiterInit(<<1, 1>>, 5, 2, IF enable_retry THEN 3 ELSE 0)
    /\ admitted = <<>>
    /\ last_slept = NoSleep
    /\ pc = "idle"
    /\ attempt = 0
    /\ outcomes = <<>>
    /\ sleeps = <<>>
    /\ exec_result = NoneResult
    /\ rate_limit_enabled \in BOOLEAN
    /\ rate_limiter = (IF rate_limit_enabled THEN "limiter" ELSE "none")
    /\ NoClientCalls
    /\ max_batch_size \in 1..MaxBatchSize
    /\ variables \in QueryMappings
    /\ use_batching \in BOOLEAN
    /\ batches = <<>>
    /\ needs_batching = "none"
    /\ built_query = <<>>
    /\ cache_enabled \in BOOLEAN
    /\ cache_expiry_seconds = 1800 * Unit
    /\ cache_files \in
         {{}, {JsonFile(CacheKey(DataUrl, BuildQuery(ProductCode, PlanOf(variables)[1]),
                                 Language),
                        RowsPayload(<<RawB, RawEmpty, RawB>>), 0)}}
    /\ cache_dir_exists = (cache_files # {})
    /\ storage = "ok"
    /\ cache_log = <<>>
    /\ cache_stored = {[key |-> f.key, data |-> f.data, at |-> f.mtime] : f \in cache_files}
    /\ key_log = <<>>
    /\ q_pc = "idle"
    /\ bi = 0
    /\ all_dataframes = <<>>
    /\ result_df = <<>>
    /\ batch_log = <<>>
    /\ net_calls = 0
    /\ faults = 0

\* get_data_as_dataframe is called: the size check and the plan
StartQuery ==
    /\ q_pc = "idle"
    /\ IF UsesBatches(variables)
       THEN /\ batches' = CreateBatchesRun(variables).batches
            /\ variables' = CreateBatchesRun(variables).caller
            /\ q_pc' = "loop"
       ELSE /\ q_pc' = "single"
            /\ UNCHANGED <<batches, variables>>
    /\ needs_batching' = IF ~use_batching THEN needs_batching
                         ELSE IF NeedsBatching(variables) THEN "True" ELSE "False"
    /\ bi' = 0
    /\ all_dataframes' = <<>>
    /\ UNCHANGED <<clock, limiterVars, admitted, last_slept, execVars, max_batch_size,
                   built_query, cacheVars, rate_limit_enabled, clientVars, use_batching, result_df,
                   batch_log, net_calls, faults>>

\* _get_data answered by the cache: no request is made
DispatchCached ==
    /\ Dispatching
    /\ pc = "idle"
    /\ CacheHit
    /\ EndDispatch(GetFromCache(CurrentKey, clock), TRUE)
    /\ UNCHANGED <<clock, limiterVars, admitted, last_slept, execVars, batchVars,
                   cacheConf, cacheHist, rate_limit_enabled, clientVars,
                   use_batching, net_calls, faults>>

\* _get_data with rate limiting off: _make_request_raw is called once
DispatchDirect ==
    /\ Dispatching
    /\ pc = "idle"
    /\ ~CacheHit
    /\ ~Limited
    /\ \E resp \in ResponsesNow :
         /\ \E e \in MakeRequestRaw(resp) : EndDispatch(e, FALSE)
         /\ faults' = IF IsFault(resp) THEN faults + 1 ELSE faults
    /\ net_calls' = net_calls + 1
    /\ UNCHANGED <<clock, limiterVars, admitted, last_slept, execVars, batchVars,
                   cacheConf, cacheHist, rate_limit_enabled, clientVars,
                   use_batching>>

\* _get_data with rate limiting on: execute_with_retry is entered
DispatchStart ==
    /\ Dispatching
    /\ ~CacheHit
    /\ Limited
    /\ ExecEnter
    /\ UNCHANGED <<batchVars, cacheVars, queryVars>>

\* one iteration of execute_with_retry on _make_request_raw
RequestAttempt ==
    /\ Dispatching
    /\ \E resp \in ResponsesNow :
         /\ ExecAttemptWith(MakeRequestRaw(resp), 0)
         /\ faults' = IF IsFault(resp) THEN faults + 1 ELSE faults
    /\ net_calls' = net_calls + 1
    /\ UNCHANGED <<batchVars, cacheVars, rate_limit_enabled, clientVars, use_batching, q_pc, bi,
                   all_dataframes, result_df, batch_log>>

\* execute_with_retry has returned or raised
DispatchEnd ==
    /\ Dispatching
    /\ pc \in {"returned", "raised"}
    /\ EndDispatch(exec_result, FALSE)
    /\ pc' = "idle"
    /\ UNCHANGED <<clock, limiterVars, admitted, last_slept, attempt, outcomes, sleeps,
                   exec_result, batchVars, cacheConf, cacheHist,
                   rate_limit_enabled, clientVars, use_batching, net_calls, faults>>

\* the loop is over: the merge and the return
Merge ==
    /\ q_pc = "loop"
    /\ bi >= Len(batches)
    /\ LET merged == MergeBatches(all_dataframes)
       IN  /\ q_pc' = IF merged.raised THEN "raised" ELSE "returned"
           /\ result_df' = merged.table
    /\ UNCHANGED <<clock, limiterVars, admitted, last_slept, execVars, batchVars,
                   cacheVars, rate_limit_enabled, clientVars, use_batching, bi, all_dataframes,
                   batch_log, net_calls, faults>>

Next ==
    \/ StartQuery
    \/ DispatchCached
    \/ DispatchDirect
    \/ DispatchStart
    \/ RequestAttempt
    \/ DispatchEnd
    \/ Merge

Spec == Init /\ [][Next]_vars

\* A client with the cache and the batching on and enable_retry=False, and a
\* mapping that is batched, for a query and its repeat
InitRepeat ==
    /\ Init
    /\ cache_enabled
    /\ use_batching
    /\ max_retries = 0
    /\ NeedsBatching(variables)

\* get_data_as_dataframe has returned or raised and is called again with the
\* same arguments: the size check and the plan; first_log keeps what the
\* query before did with its batches
StartQueryAgain ==
    /\ q_pc \in {"returned", "raised"}
    /\ first_log = <<>>
    /\ first_log' = batch_log
    /\ batch_log' = <<>>
    /\ IF UsesBatches(variables)
       THEN /\ batches' = CreateBatchesRun(variables).batches
            /\ variables' = CreateBatchesRun(variables).caller
            /\ q_pc' = "loop"
       ELSE /\ q_pc' = "single"
            /\ UNCHANGED <<batches, variables>>
    /\ needs_batching' = IF ~use_batching THEN needs_batching
                         ELSE IF NeedsBatching(variables) THEN "True" ELSE "False"
    /\ bi' = 0
    /\ all_dataframes' = <<>>
    /\ UNCHANGED <<clock, limiterVars, admitted, last_slept, execVars, max_batch_size,
                   built_query, cacheVars, rate_limit_enabled, rate_limiter, config_log,
                   request_log, raw_log, sharedVars, values_log, use_batching,
                   result_df, net_calls, faults>>

NextRepeat ==
    \/ Next
    \/ StartQueryAgain

SpecRepeat == InitRepeat /\ [][NextRepeat]_vars

----------------------------------------------------------------------------
(* TrafikanalysClient.get_all_available_values *)

\* An option name is the sequence of the code points of its characters, so
\* that str.isdigit, len and the order of list.sort are computed on them.
Name_t1 == <<116, 49>>
Name_totalt == <<116, 111, 116, 97, 108, 116>>
Name_total == <<116, 111, 116, 97, 108>>
Name_senaste == <<115, 101, 110, 97, 115, 116, 101>>
Name_forra == <<102, 111, 114, 114, 97>>
Name_2019 == <<50, 48, 49, 57>>
Name_2020 == <<50, 48, 50, 48>>
Name_2021 == <<50, 48, 50, 49>>
Name_202 == <<50, 48, 50>>
Name_20201 == <<50, 48, 50, 48, 49>>
Name_20k1 == <<50, 48, 107, 49>>
Name_el == <<101, 108>>

\* the names the options of a variable are drawn from
OptionNames == {Name_t1, Name_totalt, Name_total, Name_senaste, Name_forra,
                Name_2019, Name_2020, Name_2021, Name_202, Name_20201,
                Name_20k1, Name_el}

\* explore_variable_options(...)['name']: the names in the order of the rows
OptionLists == UNION {[1..n -> OptionNames] : n \in 0..MaxOptions}

\* the variables the values are asked for
ValueVariables == {"ar", "drivmedel"}

\* value_name in ['t1', 'totalt', 'total']
IsTotalName(name) == name \in {Name_t1, Name_totalt, Name_total}

\* value_name in ['senaste', 'forra']
IsSpecialName(name) == name \in {Name_senaste, Name_forra}

\* str.isdigit(): at least one character and every character a digit
IsDigit(name) == Len(name) >= 1 /\ \A i \in 1..Len(name) : name[i] \in 48..57

\* IsNumericYear without the test of the length
IsNumericYearAnyLength(name) == IsDigit(name)

\* year.isdigit() and len(year) == 4
IsNumericYear(name) == IsDigit(name) /\ Len(name) = 4

\* the order of str: by the first character that differs, a prefix first
RECURSIVE StrLess(_, _)
StrLess(a, b) ==
    IF b = <<>> THEN FALSE
    ELSE IF a = <<>> THEN TRUE
    ELSE IF a[1] # b[1] THEN a[1] < b[1]
    ELSE StrLess(Tail(a), Tail(b))

\* the place of name in the sorted list names
RECURSIVE InsertName(_, _)
InsertName(name, names) ==
    IF names = <<>> THEN <<name>>
    ELSE IF StrLess(name, names[1]) THEN <<name>> \o names
    ELSE <<names[1]>> \o InsertName(name, Tail(names))

\* list.sort()
RECURSIVE SortNames(_)
SortNames(names) ==
    IF names = <<>> THEN <<>>
    ELSE InsertName(names[Len(names)], SortNames(SubSeq(names, 1, Len(names) - 1)))

\* the row is skipped by the loop over the options
SkippedName(variable_name, name, exclude_totals) ==
    \/ exclude_totals /\ IsTotalName(name)
    \/ variable_name = "ar" /\ IsSpecialName(name)

\* get_all_available_values(product_code, variable_name, exclude_totals)
\* when explore_variable_options returns the rows named options
GetAllAvailableValues(variable_name, options, exclude_totals) ==
    LET values == SelectSeq(options,
                            LAMBDA name : ~SkippedName(variable_name, name, exclude_totals))
    IN  IF variable_name = "ar"
        THEN SortNames(SelectSeq(values, IsNumericYear))
        ELSE values

InitValues ==
    /\ NoRequest
    /\ NoQuery

\* get_all_available_values is called, once
GetAllAvailableValuesCall ==
    /\ values_log = <<>>
    /\ \E variable_name \in ValueVariables, options \in OptionLists,
          exclude_totals \in BOOLEAN :
         values_log' = <<[variable_name |-> variable_name, options |-> options,
                          exclude_totals |-> exclude_totals,
                          values |-> GetAllAvailableValues(variable_name, options,
                                                           exclude_totals)]>>
    /\ UNCHANGED <<clock, limiterVars, admitted, last_slept, execVars, batchVars,
                   cacheVars, rate_limit_enabled, rate_limiter, config_log,
                   request_log, raw_log, sharedVars, use_batching, q_pc, bi,
                   all_dataframes, result_df, batch_log, net_calls, faults,
                   first_log>>

NextValues == GetAllAvailableValuesCall

SpecValues == InitValues /\ [][NextValues]_vars

----------------------------------------------------------------------------
(* Properties of execute_with_retry *)

Terminated == pc \in {"returned", "raised"}

\* a failure with rate-limit (429) or server (5xx) semantics
Is429(e) == e.kind = "RequestException" /\ e.has_response /\ e.status_code = 429
Is5xx(e) == e.kind = "RequestException" /\ e.has_response /\ e.status_code >= 500
IsFailure(e) == e.kind # "return"
AllOutcomes(P(_)) == \A i \in 1..Len(outcomes) : P(outcomes[i])
Is429or5xx(e) == Is429(e) \/ Is5xx(e)
IsConnectionError(e) == e.kind = "RequestException" /\ ~e.has_response

\* C3: when every invocation fails with 429 or 5xx and max_retries = n >= 0,
\* the operation is invoked n + 1 times, never more, and then the last
\* failure is raised (once for n = 0).
C3_RetryExhaustion ==
    (max_retries >= 0 /\ AllOutcomes(Is429or5xx)) =>
        /\ Len(outcomes) <= max_retries + 1
        /\ Terminated =>
             /\ pc = "raised"
             /\ Len(outcomes) = max_retries + 1
             /\ exec_result = Last(outcomes)

\* C3's case: retries were configured and all of them were used up.
C3_Witness ==
    /\ pc = "raised"
    /\ max_retries >= 1
    /\ Len(outcomes) = max_retries + 1
    /\ AllOutcomes(Is429or5xx)

\* C4: a failure that is neither 429 nor 5xx ends the call on the attempt
\* where it occurs: it is the last invocation, it is what is raised, and no
\* backoff sleep follows it, whatever max_retries is.
C4_NonRetryablePropagates ==
    \A i \in 1..Len(outcomes) :
        (IsFailure(outcomes[i]) /\ ~Is429or5xx(outcomes[i])) =>
            /\ i = Len(outcomes)
            /\ pc = "raised"
            /\ exec_result = outcomes[i]
            /\ \A k \in 1..Len(sleeps) : sleeps[k].attempt # i - 1

\* C4's case: a 4xx failure raised although retries were left.
C4_Witness ==
    /\ pc = "raised"
    /\ Len(outcomes) >= 1
    /\ Len(outcomes) <= max_retries
    /\ Last(outcomes) = HttpError(404)

\* C5 as claimed: when every attempt ends in a connection error that carries
\* no response, the request is attempted max_retries + 1 times before the
\* failure is surfaced.
C5_ConnectionErrorRetried ==
    (Terminated /\ max_retries >= 0 /\ Len(outcomes) >= 1
       /\ AllOutcomes(IsConnectionError)) =>
        Len(outcomes) = max_retries + 1

\* C5 amended: a connection error that carries no response is never retried
\* (it is raised on the attempt where it occurs); only 429 and 5xx failures
\* are followed by another attempt, at most max_retries times.
C5_OnlyHttp429or5xxRetried ==
    /\ \A i \in 1..Len(outcomes) :
         IsConnectionError(outcomes[i]) =>
             i = Len(outcomes) /\ pc = "raised" /\ exec_result = outcomes[i]
    /\ \A i \in 1..(Len(outcomes) - 1) : Is429or5xx(outcomes[i])
    /\ max_retries >= 0 => Len(sleeps) <= max_retries

\* C5's case: a connection error on a retry, raised with retries left.
C5_Witness ==
    /\ pc = "raised"
    /\ Len(outcomes) = 2
    /\ max_retries >= 2
    /\ Is429or5xx(outcomes[1])
    /\ Last(outcomes) = ConnectionError

\* the wait_time the claim gives for a failure of attempt a
ClaimedWait(e, a) ==
    IF Is429(e) THEN Pow(backoff_factor, a) * 2 ELSE Pow(backoff_factor, a)

\* the k-th backoff sleep follows attempt k - 1 and lasts what C6 says
ExactWaits ==
    \A k \in 1..Len(sleeps) :
        /\ sleeps[k].attempt = k - 1
        /\ sleeps[k].error = outcomes[k]
        /\ Is429or5xx(sleeps[k].error)
        /\ sleeps[k].wait_time = ClaimedWait(sleeps[k].error, k - 1)

\* C6 as claimed: the waits are exact and, backoff_factor being >= 1,
\* successive retries of one operation never wait less than the one before.
C6_WaitsNonDecreasing ==
    /\ ExactWaits
    /\ \A j, k \in 1..Len(sleeps) :
         j < k => sleeps[j].wait_time <= sleeps[k].wait_time

\* C6 amended: the waits are exact; successive retries wait non-decreasing
\* durations when the failures are of the same kind (both 429 or both 5xx),
\* or of any kinds when backoff_factor >= 2.
C6_WaitsExactAndMonotonePerKind ==
    /\ ExactWaits
    /\ \A j, k \in 1..Len(sleeps) :
         (j < k /\ (backoff_factor >= 2
                     \/ Is429(sleeps[j].error) = Is429(sleeps[k].error))) =>
             sleeps[j].wait_time <= sleeps[k].wait_time

\* C6's case: two retries, the first after a 429 and the second after a 5xx.
C6_Witness ==
    /\ Len(sleeps) >= 2
    /\ Is429(sleeps[1].error)
    /\ Is5xx(sleeps[2].error)
    /\ backoff_factor >= 2

\* C27: every invocation of func, the first and each retry, has its own
\* wait_if_needed before it: the timestamps recorded are as many as the
\* invocations, in time order, and the last one is the last of call_times,
\* so a failed attempt counts in the window like any call.
C27_AdmitBeforeEveryAttempt ==
    /\ Len(admitted) = Len(outcomes)
    /\ \A i \in 1..(Len(admitted) - 1) : admitted[i] <= admitted[i + 1]
    /\ outcomes # <<>> =>
          /\ call_times # <<>>
          /\ Last(call_times) = Last(admitted)
          /\ \A i \in 1..Len(admitted) :
                Last(admitted) - admitted[i] < Unit
                    => \E j \in 1..Len(call_times) : call_times[j] = admitted[i]

\* C27's case: three invocations, the first two failed and retried, each
\* with a timestamp of its own
C27_Witness ==
    /\ Len(outcomes) = 3
    /\ Len(admitted) = 3
    /\ IsFailure(outcomes[1]) /\ IsFailure(outcomes[2])
    /\ Len(sleeps) >= 2
    /\ admitted[1] < admitted[2] /\ admitted[2] < admitted[3]

\* C39: whatever max_retries the limiter was constructed with, an
\* execute_with_retry that has returned or raised has invoked the operation
\* at least once, and what it has returned is the result of the last
\* invocation.
C39_InvokedAtLeastOnce ==
    pc \in {"returned", "raised"} =>
        /\ Len(outcomes) >= 1
        /\ pc = "returned" => exec_result = Last(outcomes)

----------------------------------------------------------------------------
(* Properties of the limiter *)

\* the recorded timestamps that lie in the trailing window (s - 1.0, s]
InWindow(s) == {j \in 1..Len(admitted) : admitted[j] <= s /\ s - admitted[j] < Unit}

\* C1: any two consecutive recorded timestamps differ by at least
\* 1 / calls_per_second (min_interval), whatever the rate and the call times.
C1_MinIntervalBetweenCalls ==
    \A i \in 2..Len(admitted) : admitted[i] - admitted[i - 1] >= min_interval

\* C2: no trailing window of one time unit, ending at any instant, holds
\* more than burst_size recorded timestamps.
C2_BurstWindow ==
    \A s \in 0..clock : Cardinality(InWindow(s)) <= burst_size

\* C2's case: the window was full, the call slept for the burst limit and
\* was then recorded.
C2_Witness ==
    /\ last_slept.burst
    /\ Len(admitted) > burst_size
    /\ Cardinality(InWindow(clock)) = burst_size
    /\ burst_size >= 2

\* C31: every wait_if_needed leaves a history that is the timestamps of the
\* old one lying within one time unit of the time of the call, in their
\* order, followed by the timestamp it records; the history is in
\* non-decreasing order and holds at most burst_size + 1 entries
C31_HistoryPrunedOrderedBounded ==
    [][call_times' # call_times =>
          LET n == Len(call_times')
          IN  /\ n >= 1
              /\ call_times'[n] = clock'
              /\ SubSeq(call_times', 1, n - 1)
                    = SelectSeq(call_times, LAMBDA t : clock - t < Unit)
              /\ \A i \in 1..(n - 1) : call_times'[i] <= call_times'[i + 1]
              /\ n <= burst_size + 1]_vars

\* C31's case: a history of burst_size + 1 entries left by a call that has
\* dropped older timestamps
C31_Witness ==
    /\ burst_size >= 2
    /\ Len(call_times) = burst_size + 1
    /\ Len(admitted) > Len(call_times)
    /\ last_slept.burst

----------------------------------------------------------------------------
(* Properties of _create_batches *)

Planned == batches # <<>>

\* the lists of the mapping that are longer than max_batch_size
OversizedAt(m) ==
    {i \in 1..Len(m) : m[i].value.kind = "list" /\ Len(m[i].value.items) > max_batch_size}

\* the first variable, in the mapping's order, of the largest oversized length
LargestOversized(m) ==
    CHOOSE i \in OversizedAt(m) :
        \A j \in OversizedAt(m) :
            \/ Len(m[j].value.items) < Len(m[i].value.items)
            \/ Len(m[j].value.items) = Len(m[i].value.items) /\ i <= j

RECURSIVE ConcatChunks(_, _)
ConcatChunks(bs, name) ==
    IF bs = <<>> THEN <<>>
    ELSE GetValue(bs[1], name).items \o ConcatChunks(Tail(bs), name)

\* C9: when the largest oversized list has N elements, _create_batches
\* returns ceil(N / k) batches, every chunk of the batched variable has at
\* most k elements and all but the last exactly k, and the chunks
\* concatenated in batch order are the original list.
C9_ChunksPartitionLargest ==
    (Planned /\ OversizedAt(variables) # {}) =>
        LET it == variables[LargestOversized(variables)]
            N  == Len(it.value.items)
            k  == max_batch_size
        IN  /\ Len(batches) * k >= N
            /\ (Len(batches) - 1) * k < N
            /\ \A b \in 1..Len(batches) :
                 /\ GetValue(batches[b], it.name).kind = "list"
                 /\ Len(GetValue(batches[b], it.name).items) <= k
                 /\ b < Len(batches) => Len(GetValue(batches[b], it.name).items) = k
            /\ ConcatChunks(batches, it.name) = it.value.items

\* C9's case: a list split into three or more batches, the last one short,
\* with a second oversized list in the mapping.
C9_Witness ==
    /\ Len(batches) >= 3
    /\ Cardinality(OversizedAt(variables)) >= 2
    /\ Len(variables[LargestOversized(variables)].value.items) % max_batch_size # 0

\* C10: when no list of the mapping is longer than max_batch_size (the
\* empty mapping, strings and empty values included), _create_batches
\* returns exactly one batch, equal to the mapping.
C10_NoBatchingNeeded ==
    (Planned /\ OversizedAt(variables) = {}) => batches = <<variables>>

\* C10's case: a mapping with a string longer than max_batch_size and a list
\* of exactly max_batch_size elements.
C10_Witness ==
    /\ Planned
    /\ OversizedAt(variables) = {}
    /\ \E i, j \in 1..Len(variables) :
         /\ variables[i].value.kind = "str"
         /\ Len(variables[i].value.items) > max_batch_size
         /\ variables[j].value.kind = "list"
         /\ Len(variables[j].value.items) = max_batch_size

\* C10's case for the empty mapping.
C10_WitnessEmpty == Planned /\ variables = <<>>

----------------------------------------------------------------------------
(* Properties of _needs_batching, of the choice of the batched variable and
   of _build_query *)

\* the names of a mapping in their order
NamesOf(m) == [i \in 1..Len(m) |-> m[i].name]

\* the names whose value in batch b is not the caller's
ChangedIn(b, m) == {m[i].name : i \in {j \in 1..Len(m) : b[j] # m[j]}}

\* C33: _create_batches leaves the caller's mapping as it was, and every
\* batch it returns has the caller's variables in the caller's order with
\* the caller's values, but for one variable, the same in every batch
C33_CallerMappingUnchanged ==
    [][batches' # batches =>
          /\ variables' = variables
          /\ \A b \in 1..Len(batches') : NamesOf(batches'[b]) = NamesOf(variables)
          /\ Cardinality(UNION {ChangedIn(batches'[b], variables) : b \in 1..Len(batches')}) <= 1]_vars

\* C33's case: a plan of several batches for a mapping with a second list
\* longer than max_batch_size and a scalar value
C33_Witness ==
    /\ Len(batches) >= 2
    /\ Cardinality(OversizedAt(variables)) >= 2
    /\ \E i \in 1..Len(variables) : variables[i].value.kind = "str"
    /\ \A b \in 1..Len(batches) : batches[b] # variables

\* C11: _needs_batching is true exactly when some variable's value is a
\* list of more than max_batch_size elements; a list of exactly
\* max_batch_size elements, a string of any length and an empty value do
\* not make it true.
C11_NeedsBatchingIffLongList ==
    needs_batching # "none" =>
        (needs_batching = "True" <=> OversizedAt(variables) # {})

\* C11's case: False for a mapping with a list of exactly max_batch_size
\* elements, a string longer than max_batch_size and an empty value.
C11_Witness ==
    /\ needs_batching = "False"
    /\ \E i, j, l \in 1..Len(variables) :
         /\ variables[i].value.kind = "list"
         /\ Len(variables[i].value.items) = max_batch_size
         /\ variables[j].value.kind = "str"
         /\ Len(variables[j].value.items) > max_batch_size
         /\ variables[l].value.items = <<>>

\* C12: with several oversized variables only the first of the largest
\* length is partitioned; every batch has the mapping's variables in the
\* mapping's order, and every other variable, oversized or not, with its
\* original value.
C12_OnlyLargestPartitioned ==
    (Planned /\ Cardinality(OversizedAt(variables)) >= 2) =>
        \A b \in 1..Len(batches) :
            /\ Len(batches[b]) = Len(variables)
            /\ \A j \in 1..Len(variables) :
                 /\ batches[b][j].name = variables[j].name
                 /\ IF j = LargestOversized(variables)
                    THEN /\ batches[b][j].value # variables[j].value
                         /\ Len(batches[b][j].value.items) <= max_batch_size
                    ELSE batches[b][j].value = variables[j].value

\* C12's case: two oversized lists of the same, largest, length and a
\* shorter oversized one before them.
C12_Witness ==
    /\ Planned
    /\ \E i, j, l \in OversizedAt(variables) :
         /\ l < i /\ i < j
         /\ Len(variables[i].value.items) = Len(variables[j].value.items)
         /\ Len(variables[l].value.items) < Len(variables[i].value.items)
         /\ LargestOversized(variables) = i
         /\ batches[1][j].value = variables[j].value
         /\ batches[1][l].value = variables[l].value

\* the segment the grammar gives a variable
SegmentOf(it) ==
    IF it.value.items = <<>> THEN it.name
    ELSE IF it.value.kind = "list" THEN it.name \o ":" \o Join(it.value.items, ",")
    ELSE it.name \o ":" \o Join(it.value.items, "")

RECURSIVE SegmentsFrom(_, _)
SegmentsFrom(m, i) ==
    IF i > Len(m) THEN "" ELSE "|" \o SegmentOf(m[i]) \o SegmentsFrom(m, i + 1)

\* C14: _build_query returns the product code and then, for each variable
\* in insertion order, '|' and its segment: the name alone for an empty or
\* absent value, name:value for a string, name:v1,v2,... for a list; the
\* empty mapping gives the product code alone, and
\* {ar: [a, b], reglan: t, drivm: ''} gives 't10016|ar:a,b|reglan:t|drivm'.
C14_QueryGrammar ==
    built_query # <<>> =>
        /\ built_query[1] = ProductCode \o SegmentsFrom(variables, 1)
        /\ variables = <<>> => built_query[1] = "t10016"
        /\ variables = <<Item("ar", List(<<"a", "b">>)), Item("reglan", Str(<<"t">>)),
                         Item("drivm", Str(<<>>))>>
              => built_query[1] = "t10016|ar:a,b|reglan:t|drivm"

\* C14's case: the query of {ar: [a, b], reglan: t, drivm: ''} has been built
C14_Witness ==
    /\ built_query = <<"t10016|ar:a,b|reglan:t|drivm">>
    /\ variables = <<Item("ar", List(<<"a", "b">>)), Item("reglan", Str(<<"t">>)),
                     Item("drivm", Str(<<>>))>>

----------------------------------------------------------------------------
(* Properties of the batched get_data_as_dataframe *)

\* the call took the batched path
Batched == batches # <<>>

RowsOf(table) == {table[i] : i \in 1..Len(table)}

\* the rows of the batches that succeeded, as their conversions gave them
SucceededRows ==
    UNION {RowsOf(batch_log[i].table) : i \in {j \in 1..Len(batch_log) : batch_log[j].ok}}

\* the same rows over the union of the columns, absent cells marked
SucceededRowsAligned ==
    LET cols == UNION {ColumnsOf(r) : r \in SucceededRows}
    IN  {r \cup {<<c, "NaN">> : c \in cols \ ColumnsOf(r)} : r \in SucceededRows}

\* no batch of the log gave rows: it raised, or its table was empty
NoBatchGaveRows ==
    \A i \in 1..Len(batch_log) : ~batch_log[i].ok \/ batch_log[i].table = <<>>

\* C7: a batched call never raises, whatever batches fail; when it returns
\* every batch of the plan has been dispatched, a failed one skipped, and
\* the merged table holds exactly the rows of the batches that succeeded.
C7_FailedBatchSkipped ==
    Batched =>
        /\ q_pc # "raised"
        /\ Len(batch_log) <= Len(batches)
        /\ q_pc = "returned" =>
              /\ Len(batch_log) = Len(batches)
              /\ RowsOf(result_df) = SucceededRowsAligned

\* a returned call of three batches: success, failure, success
C7_Witness ==
    /\ Batched
    /\ q_pc = "returned"
    /\ Len(batch_log) = 3
    /\ batch_log[1].ok /\ batch_log[1].table # <<>>
    /\ ~batch_log[2].ok
    /\ batch_log[3].ok /\ batch_log[3].table # <<>>
    /\ RowsOf(result_df) = RowsOf(batch_log[1].table) \cup RowsOf(batch_log[3].table)

\* C8: a batched call all of whose batches failed or gave no rows returns
\* an empty table and does not raise.
C8_AllBatchesFailEmptyTable ==
    (Batched /\ q_pc \in {"returned", "raised"} /\ NoBatchGaveRows) =>
        /\ q_pc = "returned"
        /\ result_df = <<>>

\* a returned call of several batches, one raised and one without rows,
\* none with rows
C8_Witness ==
    /\ Batched
    /\ q_pc = "returned"
    /\ Len(batch_log) >= 2
    /\ NoBatchGaveRows
    /\ \E i \in 1..Len(batch_log) : ~batch_log[i].ok
    /\ \E i \in 1..Len(batch_log) : batch_log[i].ok
    /\ result_df = <<>>

\* the records of the batches that succeeded, in batch order
RECURSIVE SucceededConcat(_)
SucceededConcat(i) ==
    IF i > Len(batch_log) THEN <<>>
    ELSE (IF batch_log[i].ok THEN batch_log[i].table ELSE <<>>) \o SucceededConcat(i + 1)

\* the same records over the union of their columns
SucceededRecords ==
    LET all == SucceededConcat(1)
        cols == UNION {ColumnsOf(all[i]) : i \in 1..Len(all)}
    IN  [i \in 1..Len(all) |-> all[i] \cup {<<c, "NaN">> : c \in cols \ ColumnsOf(all[i])}]

FirstIndex(seq, r) ==
    CHOOSE i \in 1..Len(seq) : seq[i] = r /\ \A j \in 1..(i - 1) : seq[j] # r

\* C13: the merged table of a batched query holds the records of the
\* successful batches, each exactly once, in the order of their first
\* occurrences in batch-submission order.
C13_MergedOnceInFirstOccurrenceOrder ==
    (Batched /\ q_pc = "returned") =>
        LET E == SucceededRecords
        IN  /\ RowsOf(result_df) = RowsOf(E)
            /\ \A i, j \in 1..Len(result_df) :
                 i < j => /\ result_df[i] # result_df[j]
                          /\ FirstIndex(E, result_df[i]) < FirstIndex(E, result_df[j])

\* C13's case: a record returned by two batches, the later batch holding a
\* new record before it
C13_Witness ==
    /\ Batched
    /\ q_pc = "returned"
    /\ \E i, j \in 1..Len(batch_log) :
         /\ i < j
         /\ batch_log[i].ok /\ batch_log[j].ok
         /\ Len(batch_log[j].table) >= 2
         /\ batch_log[j].table[2] \in RowsOf(batch_log[i].table)
         /\ batch_log[j].table[1] \notin RowsOf(SucceededConcat(1)) \ RowsOf(batch_log[j].table)
         /\ Len(result_df) = Cardinality(RowsOf(result_df))
         /\ Len(result_df) < Len(SucceededConcat(1))

----------------------------------------------------------------------------
(* Properties of the dispatch path of get_data_as_dataframe *)

Finished == q_pc \in {"returned", "raised"}

\* C26: the batches of a batched query are dispatched one at a time in the
\* order of the plan: while the loop runs, the _get_data calls made so far
\* are exactly those of the first bi batches, one each and in that order,
\* no request is in progress for any other batch, and once the query has
\* come back every batch of the plan has had its call, the last included
C26_BatchesSequentialInPlanOrder ==
    Batched =>
        /\ Len(batch_log) <= Len(batches)
        /\ \A i \in 1..Len(batch_log) : batch_log[i].vars = batches[i]
        /\ q_pc = "loop" => bi = Len(batch_log)
        /\ pc # "idle" => q_pc = "loop" /\ bi < Len(batches)
        /\ Finished => Len(batch_log) = Len(batches)

\* C26's case: a plan of three batches run to its end with a batch that failed
\* in the middle
C26_Witness ==
    /\ Finished
    /\ Len(batches) = 3
    /\ Len(batch_log) = 3
    /\ ~batch_log[2].ok
    /\ batch_log[3].ok

\* C29: without use_batching the query makes one _get_data call, with the
\* whole mapping; with use_batching it makes as many calls as
\* _create_batches gives batches for the mapping
C29_CallsPerQuery ==
    Finished =>
        IF use_batching
        THEN Len(batch_log) = Len(CreateBatches(variables))
        ELSE /\ Len(batch_log) = 1
             /\ batch_log[1].vars = variables

\* C29's case: a list longer than max_batch_size queried with use_batching
\* off
C29_Witness ==
    /\ Finished
    /\ ~use_batching
    /\ NeedsBatching(variables)
    /\ Len(batch_log) = 1

\* the cache holds an entry with a payload, within its expiry period, for the
\* request _get_data is about to make
HitNow ==
    /\ Dispatching
    /\ pc = "idle"
    /\ cache_enabled
    /\ \E f \in cache_files :
          /\ f.key = CurrentKey
          /\ f.content = "json"
          /\ ~f.data.is_none
          /\ clock - f.mtime < cache_expiry_seconds

\* what the step ending a dispatch hands on when the payload is data
HandedOn(data) == IF DataToDataframe(data).raised THEN <<>> ELSE DataToDataframe(data).table

\* C21: a request that hits the cache returns the cached payload with no
\* network activity: no session.get is made, the limiter records no
\* timestamp and sleeps for nothing, its call history and the retry
\* executor stay as they were, and the entry stays as it was saved
C21_CacheHitNoNetwork ==
    [][HitNow =>
          LET cached == CacheFile(CurrentKey).data
          IN  /\ net_calls' = net_calls
              /\ clock' = clock
              /\ admitted' = admitted
              /\ call_times' = call_times
              /\ pc' = "idle"
              /\ outcomes' = outcomes
              /\ cache_files' = cache_files
              /\ Len(batch_log') = Len(batch_log) + 1
              /\ Last(batch_log').from_cache
              /\ Last(batch_log').table = HandedOn(cached)]_vars

\* C21's case: of the two requests of a query under rate limiting the first
\* was fetched by an earlier client and is served from the cache, the second
\* goes to the network, once
C21_Witness ==
    /\ Finished
    /\ rate_limit_enabled
    /\ Len(batch_log) = 2
    /\ batch_log[1].from_cache /\ batch_log[1].table # <<>>
    /\ ~batch_log[2].from_cache /\ batch_log[2].ok
    /\ net_calls = 1
    /\ Len(admitted) = 1

\* the step that ends a dispatch ends one that failed: the response to the
\* direct call is not a decodable 200, or execute_with_retry has raised
DispatchFailsNow == IF pc = "idle" THEN faults' # faults ELSE pc = "raised"

NoPayload(entry) == entry.data \in {NonePayload, EmptyDict}

\* C37: in the repeat of a batched query on a client with the cache on and a
\* storage that refuses nothing, within the expiry period, a step makes a network call or an admit only while it dispatches a batch
\* that failed or returned {} in the query before; every batch that returned
\* another payload then is answered by the cache, with that payload.
C37_RepeatRedispatchesOnlyFailed ==
    [][first_log # <<>> =>
          /\ (net_calls' # net_calls \/ admitted' # admitted) =>
                 /\ q_pc = "loop" /\ bi < Len(first_log)
                 /\ first_log[bi + 1].vars = batches[bi + 1]
                 /\ NoPayload(first_log[bi + 1])
          /\ \A i \in 1..Len(batch_log') :
                 /\ batch_log'[i].vars = first_log[i].vars
                 /\ ~NoPayload(first_log[i]) =>
                        /\ batch_log'[i].from_cache
                        /\ batch_log'[i].data = first_log[i].data]_vars

\* the repeat has returned: of the batches of the query before one raised and
\* one fetched a payload; the first is dispatched again and fetches one, the
\* second is answered by the cache
C37_Witness ==
    /\ q_pc = "returned"
    /\ Len(first_log) >= 2 /\ Len(batch_log) = Len(first_log)
    /\ \E i, j \in 1..Len(first_log) :
         /\ first_log[i].data = NonePayload
         /\ ~batch_log[i].from_cache /\ ~NoPayload(batch_log[i])
         /\ ~NoPayload(first_log[j]) /\ ~first_log[j].from_cache
         /\ batch_log[j].from_cache

\* the dispatches over the network that have ended
NetworkDispatchesEnded ==
    Cardinality({i \in 1..Len(batch_log) : ~batch_log[i].from_cache})
        + (IF pc \in {"returned", "raised"} THEN 1 ELSE 0)

\* the backoff sleeps of the query so far: every network call of a limited
\* client but the last of each dispatch is followed by one
BackoffSleeps == IF Limited THEN net_calls - NetworkDispatchesEnded ELSE 0

\* C38: a query planned as B batches has dispatched at most B batches, made
\* at most B * (max_retries + 1) network calls and slept at most
\* B * max_retries backoff sleeps, at most max_retries of them in one
\* dispatch; once it has returned or raised every batch has been dispatched
\* once and no dispatch is under way.
C38_BoundedCallsAndSleeps ==
    LET B == Len(PlanOf(variables))
    IN  /\ Len(batch_log) <= B
        /\ Finished => Len(batch_log) = B /\ pc = "idle"
        /\ net_calls <= B * (max_retries + 1)
        /\ Len(sleeps) <= max_retries
        /\ BackoffSleeps >= 0
        /\ BackoffSleeps <= B * max_retries

\* a query of two batches or more has returned after a backoff sleep, and a
\* client without retries has made one call a batch
C38_Witness ==
    /\ Finished
    /\ Len(batches) >= 2
    /\ \/ max_retries > 0 /\ BackoffSleeps >= 2 /\ net_calls > Len(batches)
       \/ max_retries = 0 /\ net_calls = Len(batches) /\ faults >= 1

\* the raw row has a cell with a column name
HasNamedCell(raw) == \E i \in 1..Len(raw) : raw[i][1] # ""

\* the flattened records of a payload that are not empty, in payload order
RecordsOf(data) ==
    LET raws == SelectSeq(data.Rows, HasNamedCell)
    IN  [i \in 1..Len(raws) |-> ProcessRow(raws[i])]

\* the rows of the tables the batches gave, in the order of the batches
RECURSIVE RowsOfLog(_)
RowsOfLog(log) ==
    IF log = <<>> THEN <<>> ELSE log[1].table \o RowsOfLog(Tail(log))

\* C40: a single request that has returned hands on every flattened record
\* of its payload that is not empty, equal records as often as the payload
\* holds them, in payload order; a batched query that has returned hands on
\* every row its batches gave once and no row twice, also when the equal
\* rows came from one batch.
C40_DuplicatesRemovedOnlyWhenBatched ==
    (q_pc = "returned") =>
        IF UsesBatches(variables)
        THEN /\ \A i, j \in 1..Len(result_df) : result_df[i] = result_df[j] => i = j
             /\ {result_df[i] : i \in 1..Len(result_df)}
                    = {FillMissing(RowsOfLog(batch_log))[i] : i \in 1..Len(RowsOfLog(batch_log))}
        ELSE /\ Len(batch_log) = 1
             /\ "Rows" \in batch_log[1].data.keys =>
                    result_df = FillMissing(RecordsOf(batch_log[1].data))

\* a batched query has returned fewer rows than its batches gave, one batch
\* having given the same row twice
C40_Witness ==
    /\ q_pc = "returned"
    /\ UsesBatches(variables)
    /\ Len(result_df) < Len(RowsOfLog(batch_log))
    /\ \E b \in 1..Len(batch_log) :
         \E i, j \in 1..Len(batch_log[b].table) :
             i < j /\ batch_log[b].table[i] = batch_log[b].table[j]

----------------------------------------------------------------------------
(* Properties of the client's configuration and of _make_request *)

Is2xx(code) == code >= 200 /\ code < 300
IsRetryableStatus(code) == code = 429 \/ (code >= 500 /\ code < 600)

\* C23: _make_request_raw decodes and returns the body of every 2xx
\* response, raises a RequestException that carries the response for 429
\* and for every 5xx status, and returns {} for any other status, which
\* ends the request without a retry
C23_StatusClassification ==
    \A i \in 1..Len(raw_log) :
        LET resp == raw_log[i].resp
            out == raw_log[i].out
            code == resp.status_code
        IN  resp.connected =>
                /\ (Is2xx(code) /\ resp.json_ok) => out = Return(resp.body)
                /\ IsRetryableStatus(code) => out = HttpError(code)
                /\ (~Is2xx(code) /\ ~IsRetryableStatus(code)) =>
                       /\ out = Return(EmptyDict)
                       /\ i = Len(raw_log)
                       /\ pc # "running"

\* C24: a construction or configuration that builds a limiter with
\* calls_per_second = 0 raises, and only those raise; a client whose
\* constructor raised does nothing; a limiter that is held has a positive
\* rate and the finite min_interval of that rate
C24_ZeroRateRejected ==
    /\ \A i \in 1..Len(config_log) :
          config_log[i].raised <=>
              (config_log[i].enabled /\ config_log[i].calls_per_second[1] = 0)
    /\ ~ClientExists => (Len(config_log) = 1 /\ request_log = <<>> /\ net_calls = 0)
    /\ rate_limiter = "limiter" =>
          /\ calls_per_second[1] > 0
          /\ min_interval = MinIntervalOf(calls_per_second)
          /\ min_interval * calls_per_second[1] <= Unit * calls_per_second[2]

\* C24's case: configure_rate_limiting with calls_per_second = 0 has raised
\* on a client that held a limiter, and a request has gone through that
\* limiter
C24_Witness ==
    /\ Len(config_log) = 2
    /\ ~config_log[1].raised
    /\ config_log[2].raised
    /\ rate_limiter = "limiter"
    /\ request_log # <<>>
    /\ request_log[1].limited
    /\ request_log[1].out.kind = "return"
    /\ pc = "idle"

\* C28: a step of a client with rate limiting disabled is a configuration or
\* a whole _make_request: one session.get, no timestamp recorded, no sleep,
\* no retry, the outcome of that one call handed to the caller, which for a
\* 429 or 5xx response is the exception
C28_DisabledOneCallNoRetry ==
    [][(ClientExists /\ ~rate_limit_enabled) =>
          \/ config_log' # config_log
          \/ /\ net_calls' = net_calls + 1
             /\ clock' = clock
             /\ admitted' = admitted
             /\ call_times' = call_times
             /\ sleeps' = sleeps
             /\ outcomes' = outcomes
             /\ pc' = "idle"
             /\ ~request_log'[1].limited
             /\ Len(request_log'[1].raws) = 1
             /\ request_log'[1].out = request_log'[1].raws[1].out
             /\ LET resp == request_log'[1].raws[1].resp
                IN  (resp.connected /\ IsRetryableStatus(resp.status_code)) =>
                        request_log'[1].out = HttpError(resp.status_code)]_vars

\* C28's case: a client built with rate limiting, used, then configured with
\* enabled = False, whose next request was answered with 429
C28_Witness ==
    /\ Len(config_log) = 2
    /\ config_log[1].enabled /\ ~config_log[1].raised
    /\ ~config_log[2].enabled
    /\ ~rate_limit_enabled
    /\ rate_limiter = "none"
    /\ Len(admitted) = 1
    /\ net_calls = 2
    /\ request_log # <<>>
    /\ ~request_log[1].limited
    /\ request_log[1].raws[1].resp.status_code = 429
    /\ request_log[1].out = HttpError(429)

----------------------------------------------------------------------------
(* Properties of the cache *)

LastCall == cache_log[Len(cache_log)]
PrevCall == cache_log[Len(cache_log) - 1]
LastIsGet == cache_log # <<>> /\ LastCall.op = "get"

\* the saves of key that succeeded last, as the history has them
StoredFor(key) == {e \in cache_stored : e.key = key}

\* a call returned data, neither None nor an exception
GaveData(call) == call.out.kind = "return" /\ ~call.out.value.is_none

\* C15: a get_from_cache(k) that follows a save_to_cache(k, v) the storage
\* did not refuse returns v exactly when the cache is enabled and the entry
\* is younger than expiry_seconds; a get_from_cache returns None when the
\* cache is disabled, when k has no stored entry and when the entry has
\* expired.
C15_CacheRoundTrip ==
    LastIsGet =>
        LET g == LastCall
        IN  /\ (Len(cache_log) = 2 /\ PrevCall.op = "save" /\ PrevCall.key = g.key
                  /\ (PrevCall.result = "True" \/ ~cache_enabled)) =>
                    (g.out = Return(PrevCall.arg)
                        <=> (cache_enabled /\ g.at - PrevCall.at < cache_expiry_seconds))
            /\ (\/ ~cache_enabled
                \/ StoredFor(g.key) = {}
                \/ \E e \in StoredFor(g.key) : g.at - e.at >= cache_expiry_seconds) =>
                    g.out = Return(NonePayload)

\* C15's case: a save over an earlier client's file and, at once, a get
\* that returns what was saved
C15_Witness ==
    /\ Len(cache_log) = 2
    /\ PrevCall.op = "save" /\ PrevCall.result = "True"
    /\ LastCall.op = "get" /\ LastCall.key = PrevCall.key
    /\ LastCall.at = PrevCall.at
    /\ LastCall.out = Return(PayloadNew)
    /\ LastCall.key = RequestKey
    /\ clock > 0

\* C16: get_from_cache returns an entry only while its age, the time since
\* the save that stored it, is less than expiry_seconds; from that age on
\* it returns None, whatever reads came before, and with expiry_seconds = 0
\* it never returns an entry.
C16_ValidWhileYoungerThanExpiry ==
    LastIsGet =>
        LET g == LastCall
        IN  /\ GaveData(g) =>
                 \E e \in StoredFor(g.key) :
                     /\ g.at - e.at < cache_expiry_seconds
                     /\ g.out = Return(e.data)
            /\ (\E e \in StoredFor(g.key) : g.at - e.at >= cache_expiry_seconds) =>
                 ~GaveData(g)
            /\ cache_expiry_seconds = 0 => ~GaveData(g)

\* C16's case: a get that returned the entry and a later get of the same
\* key, the entry's age now at expiry_seconds, that returned None
C16_Witness ==
    /\ Len(cache_log) = 2
    /\ PrevCall.op = "get" /\ GaveData(PrevCall)
    /\ LastCall.op = "get" /\ LastCall.key = PrevCall.key
    /\ LastCall.out = Return(NonePayload)
    /\ \E e \in StoredFor(LastCall.key) : LastCall.at - e.at = cache_expiry_seconds
    /\ \E f \in cache_files : f.key = LastCall.key /\ f.content = "json"

\* two mappings with the same names and the same value for each name
SameMapping(p, q) == {p[i] : i \in 1..Len(p)} = {q[i] : i \in 1..Len(q)}
\* two mappings with the same names
SameNames(p, q) == {p[i][1] : i \in 1..Len(p)} = {q[i][1] : i \in 1..Len(q)}

\* C17: two generate_cache_key calls with the same url and the same
\* parameters, in whatever insertion order, give the same key; with the
\* same url and names but a different value they give different keys.
C17_KeyDeterministic ==
    \A i, j \in 1..Len(key_log) :
        key_log[i].url = key_log[j].url =>
            /\ SameMapping(key_log[i].params, key_log[j].params)
                 => key_log[i].key = key_log[j].key
            /\ (SameNames(key_log[i].params, key_log[j].params)
                  /\ ~SameMapping(key_log[i].params, key_log[j].params))
                 => key_log[i].key # key_log[j].key

\* C17's case: the same two parameters in the two insertion orders
C17_Witness ==
    /\ Len(key_log) >= 2
    /\ key_log[1].url = key_log[2].url
    /\ Len(key_log[1].params) = 2
    /\ key_log[1].params # key_log[2].params
    /\ SameMapping(key_log[1].params, key_log[2].params)
    /\ key_log[1].key = key_log[2].key

\* C18: with the cache disabled every get_from_cache returns None, every
\* save_to_cache returns False, no call makes a storage call (none tests,
\* makes, reads or writes anything), and the files stay as they were.
C18_DisabledTouchesNothing ==
    ~cache_enabled =>
        /\ \A i \in 1..Len(cache_log) :
             /\ cache_log[i].touches = {}
             /\ cache_log[i].op = "get" => cache_log[i].out = Return(NonePayload)
             /\ cache_log[i].op = "save" => cache_log[i].result = "False"
        /\ {[key |-> f.key, at |-> f.mtime] : f \in cache_files}
             = {[key |-> e.key, at |-> e.at] : e \in cache_stored}
        /\ \A f \in cache_files : f.mtime = 0

\* C18's case: with the cache disabled, a save and a get for a key whose
\* file, whole and young, an earlier client left
C18_Witness ==
    /\ ~cache_enabled
    /\ Len(cache_log) = 2
    /\ PrevCall.op = "save" /\ PrevCall.result = "False"
    /\ LastCall.op = "get" /\ LastCall.key = PrevCall.key
    /\ LastCall.out = Return(NonePayload)
    /\ \E f \in cache_files :
         /\ f.key = LastCall.key
         /\ f.content = "json"
         /\ LastCall.at - f.mtime < cache_expiry_seconds

\* C19: get_from_cache never raises; a file that is not whole is reported
\* as None, and cached_api_request then makes the request.
C19_DamagedEntryIsAbsent ==
    \A i \in 1..Len(cache_log) :
        /\ cache_log[i].op = "get" => cache_log[i].out.kind = "return"
        /\ (cache_log[i].op = "request" /\ ~cache_log[i].requested) => GaveData(cache_log[i])

\* C20: save_to_cache never raises, and a cached_api_request that made the
\* request returns what the request returned, saved or not.
C20_SaveFailureNotRaised ==
    \A i \in 1..Len(cache_log) :
        /\ cache_log[i].op = "save" => cache_log[i].result # "raised"
        /\ (cache_log[i].op = "request" /\ cache_log[i].requested
              /\ ~cache_log[i].arg.is_none) =>
                 cache_log[i].out = Return(cache_log[i].arg)

\* a cached_api_request that missed, made the request and returned the body
\* the request decoded
MissReturned(call) ==
    /\ call.op = "request"
    /\ call.requested
    /\ call.out.kind = "return"
    /\ ~call.out.value.is_none

\* C22: with the cache enabled, a storage that refuses nothing and a
\* positive expiry period, a cached_api_request that missed has stored
\* every decoded body it returns by the time it returns, and an identical
\* request made at once afterwards is answered by the cache with no request
C22_MissStoresPayload ==
    (cache_enabled /\ storage = "ok" /\ cache_expiry_seconds > 0
        /\ cache_log # <<>> /\ MissReturned(LastCall)
        /\ LastCall.result # "False") =>
            /\ LastCall.at = clock =>
                  \E f \in cache_files :
                      /\ f.key = LastCall.key
                      /\ f.content = "json"
                      /\ f.data = LastCall.out.value
                      /\ f.mtime = LastCall.at
            /\ ~(Len(cache_log) = 2 /\ MissReturned(PrevCall) /\ PrevCall.at = LastCall.at
                   /\ PrevCall.result # "False")

\* the call logged by the step is a cached_api_request that missed and whose
\* request_func raised or returned {}
FetchFailsNow ==
    /\ cache_log' # cache_log
    /\ Last(cache_log').op = "request"
    /\ Last(cache_log').requested
    /\ Last(cache_log').arg \in {NonePayload, EmptyDict}

\* C36: a cached_api_request whose request_func raises or returns {} leaves
\* the files of the cache, their contents and their ages as they were, and
\* no file of the cache ever holds None or {}.
C36_FailedFetchWritesNothing ==
    [][/\ FetchFailsNow =>
            /\ cache_files' = cache_files
            /\ cache_dir_exists' = cache_dir_exists
            /\ cache_stored' = cache_stored
       /\ \A f \in cache_files' :
            f.content = "json" => f.data \notin {NonePayload, EmptyDict}]_vars

\* a fetch that returned {} and one that raised, both on a miss of an
\* enabled cache that holds a file and refuses nothing
C36_Witness ==
    /\ cache_enabled /\ storage = "ok" /\ cache_files # {}
    /\ Len(cache_log) = 2
    /\ \A i \in 1..2 : cache_log[i].op = "request" /\ cache_log[i].requested
    /\ cache_log[1].arg = EmptyDict /\ cache_log[1].out = Return(EmptyDict)
    /\ cache_log[2].out = ConnectionError

----------------------------------------------------------------------------
(* Properties of get_all_available_values *)

\* the number of times name occurs in names
Occurrences(name, names) == Cardinality({i \in 1..Len(names) : names[i] = name})

\* four characters, each of them one of 0..9
FourDigits(name) == Len(name) = 4 /\ \A i \in 1..4 : name[i] >= 48 /\ name[i] <= 57

Ascending(names) == \A i \in 1..(Len(names) - 1) : ~StrLess(names[i + 1], names[i])

\* names holds the numeric years of options, each as often as options does,
\* and nothing else
ExactlyNumericYears(names, options) ==
    \A name \in OptionNames :
        Occurrences(name, names) =
            (IF FourDigits(name) THEN Occurrences(name, options) ELSE 0)

\* C34 as stated: the values returned hold no total (when exclude_totals is
\* true) and no special filter option, whatever the variable, and for 'ar'
\* they are exactly the 4-digit numeric names in ascending order.
C34_NoTotalsNoSpecialsAnyVariable ==
    \A i \in 1..Len(values_log) :
        LET c == values_log[i]
        IN  /\ \A j \in 1..Len(c.values) :
                 /\ c.exclude_totals => ~IsTotalName(c.values[j])
                 /\ ~IsSpecialName(c.values[j])
            /\ c.variable_name = "ar" =>
                 Ascending(c.values) /\ ExactlyNumericYears(c.values, c.options)

\* C34, amended: the values returned hold no total when exclude_totals is
\* true, and for the year variable 'ar' no special filter option: for 'ar'
\* they are exactly the 4-digit numeric names in ascending order; for any
\* other variable they are the names of the options, in the order of the
\* options, without the totals when exclude_totals is true.
C34_NoTotalsYearsSorted ==
    \A i \in 1..Len(values_log) :
        LET c == values_log[i]
        IN  /\ \A j \in 1..Len(c.values) :
                 /\ c.exclude_totals => ~IsTotalName(c.values[j])
                 /\ c.variable_name = "ar" => ~IsSpecialName(c.values[j])
            /\ c.variable_name = "ar" =>
                 Ascending(c.values) /\ ExactlyNumericYears(c.values, c.options)
            /\ c.variable_name # "ar" =>
                 c.values = SelectSeq(c.options,
                                      LAMBDA name : ~(c.exclude_totals /\ IsTotalName(name)))

\* the years of 'ar' come after a total and a special option and in
\* descending order, and are returned in ascending order
C34_Witness ==
    /\ values_log # <<>>
    /\ values_log[1].variable_name = "ar"
    /\ values_log[1].options = <<Name_senaste, Name_2021, Name_2019>>
    /\ values_log[1].values = <<Name_2019, Name_2021>>

----------------------------------------------------------------------------
(* Properties of the cache on a shared directory *)

\* C25: while saves and reads of one key interleave and nothing removes the
\* file, every get_from_cache returns None or the payload one of the
\* save_to_cache calls wrote, whole (the payload of writer 1 is also what an
\* earlier save left), and never raises
C25_ReadsAbsentOrWholeWrite ==
    removals = 0 =>
        \A i \in 1..Len(read_log) :
            \/ read_log[i].kind = "absent"
            \/ /\ read_log[i].kind = "data"
               /\ \/ read_log[i].data = PayloadOf(1)
                  \/ \E w \in Writers : writers[w].pc >= 1 /\ read_log[i].data = PayloadOf(w)

\* C30: a get_from_cache that finds the file gone, at the existence check,
\* at the read of its age or at the read of its content, returns None and
\* does not raise
C30_RemovedEntryIsAbsent ==
    \A i \in 1..Len(read_log) :
        read_log[i].missing_at # "none" => read_log[i].kind = "absent"

====
